---- MODULE Spec2Model ----
(***************************************************************************)
(* Internal-link audit (CompleteLinkAuditor): the mechanical/editorial     *)
(* classifier, the row loop of analyze_csv, the graph statistics of        *)
(* analyze_linking_patterns, the anchor buckets of                         *)
(* analyze_editorial_quality and calculate_editorial_score; the embedding   *)
(* cache and the clustering of CamemBERTSemanticAnalyzer; the retry loop   *)
(* of run_new_crawl and the steps of run_complete_workflow.                *)
(*                                                                         *)
(* Python strings are sequences of one-character strings, so that lower(), *)
(* strip(), `in`, startswith() and the regular expressions are computed on *)
(* the characters.  A character outside ASCII is written "U+XXXX".         *)
(***************************************************************************)
EXTENDS Integers, Sequences, FiniteSets, TLC

VARIABLES
    config,      \* self.config: the two keys the classifier reads
    fieldnames,  \* cleaned CSV header, in file order (the keys of every row)
    rows,        \* rows of the CSV file, as load_csv_file returns them
    audit,       \* what the last analyze_csv call computed, or NoAudit
    call,        \* the last application of a function, or NoCall
    cache,       \* files of self.cache_dir: cache key -> content of the file
    directory,   \* "writable", or "read-only": no file created or removed
    model,       \* "loaded", "unavailable", or "not imported" (no analyzer)
    encode_calls, \* how many times self.model.encode has been called
    processes,   \* the runs that share self.cache_dir: where each one stands
    crawl,       \* the run_new_crawl call in progress, or <<>>
    workflow     \* the run_complete_workflow call in progress, or <<>>

vars == <<config, fieldnames, rows, audit, call, cache, directory, model,
          encode_calls, processes, crawl, workflow>>

analyzer_vars == <<cache, directory, model, encode_calls, processes>>

----------------------------------------------------------------------------
(* Bounds of the model *)

MaxRows == 3

MaxTexts == 2

MaxEncodeCalls == 2

MaxAnchors == 3

MaxClusters == 2

MaxPages == 7

MaxProcesses == 2

MaxAttempts == 3

----------------------------------------------------------------------------
(* Python str operations *)

UpperCase == <<"A","B","C","D","E","F","G","H","I","J","K","L","M",
               "N","O","P","Q","R","S","T","U","V","W","X","Y","Z">>

LowerCase == <<"a","b","c","d","e","f","g","h","i","j","k","l","m",
               "n","o","p","q","r","s","t","u","v","w","x","y","z">>

Digits == {"0","1","2","3","4","5","6","7","8","9"}

Whitespace == {" ", "\t", "\n"}

SetMin(S) == CHOOSE x \in S : \A y \in S : x <= y

SetMax(S) == CHOOSE x \in S : \A y \in S : x >= y

Range(s) == {s[i] : i \in 1..Len(s)}

\* the lower-case letter of each upper-case letter
LowerOf == [c \in {UpperCase[i] : i \in 1..26} |->
               LowerCase[CHOOSE i \in 1..26 : UpperCase[i] = c]]

LowerChar(c) == IF c \in DOMAIN LowerOf THEN LowerOf[c] ELSE c

\* str.lower()
Lower(s) == [i \in 1..Len(s) |-> LowerChar(s[i])]

\* str.strip(chars): drop the leading and trailing characters that are in cs
StripChars(s, cs) ==
    LET keep == {i \in 1..Len(s) : s[i] \notin cs}
    IN  IF keep = {} THEN <<>> ELSE SubSeq(s, SetMin(keep), SetMax(keep))

\* str.strip()
Strip(s) == StripChars(s, Whitespace)

\* sub occurs in s at offset i
OccursAt(sub, s, i) == \A j \in 1..Len(sub) : s[i + j] = sub[j]

\* sub in s
Contains(sub, s) == \E i \in 0..(Len(s) - Len(sub)) : OccursAt(sub, s, i)

ContainsAny(terms, s) == \E t \in terms : Contains(t, s)

\* s.startswith(p)
StartsWith(s, p) == Len(p) <= Len(s) /\ OccursAt(p, s, 0)

\* s.replace(c, '')
RemoveChar(s, c) == SelectSeq(s, LAMBDA x : x # c)

\* s.split() from character i on: word is the run being read, acc the
\* words already ended
RECURSIVE SplitFrom(_, _, _, _)
SplitFrom(s, i, word, acc) ==
    IF i > Len(s)
    THEN IF word = <<>> THEN acc ELSE Append(acc, word)
    ELSE IF s[i] \in Whitespace
    THEN SplitFrom(s, i + 1, <<>>, IF word = <<>> THEN acc ELSE Append(acc, word))
    ELSE SplitFrom(s, i + 1, Append(word, s[i]), acc)

\* s.split(): the maximal runs of characters that are not whitespace
Split(s) == SplitFrom(s, 1, <<>>, <<>>)

----------------------------------------------------------------------------
(* Regular expressions.  A pattern is a record:                            *)
(*   kind "anchored":  ^(alt|alt|...|prefix\d+)$                           *)
(*   kind "search":    lead(alt|alt|...), found anywhere in the string     *)
(*   kind "malformed": a string re.compile rejects (re.error)              *)

Anchored(alts, digit_prefixes) ==
    [kind |-> "anchored", lead |-> {<<>>}, alts |-> alts,
     digit_prefixes |-> digit_prefixes]

Search(lead, alts) ==
    [kind |-> "search", lead |-> lead, alts |-> alts, digit_prefixes |-> {}]

Malformed ==
    [kind |-> "malformed", lead |-> {}, alts |-> {}, digit_prefixes |-> {}]

\* prefix followed by \d+ up to the end of the string
DigitsAfter(s, p) ==
    /\ StartsWith(s, p)
    /\ Len(s) > Len(p)
    /\ \A i \in (Len(p) + 1)..Len(s) : s[i] \in Digits

\* a and s are equal but for the case of their letters
EqualIgnoreCase(a, s) ==
    Len(a) = Len(s) /\ \A i \in 1..Len(a) : LowerChar(a[i]) = LowerChar(s[i])

\* re.search(pattern, s, re.IGNORECASE) for a pattern that compiles
ReSearch(p, s) ==
    IF p.kind = "anchored"
    THEN \/ \E a \in p.alts : EqualIgnoreCase(a, s)
         \/ \E d \in p.digit_prefixes : DigitsAfter(Lower(s), Lower(d))
    ELSE \E l \in p.lead : \E a \in p.alts : Contains(Lower(l \o a), Lower(s))

----------------------------------------------------------------------------
(* URLs.  A URL cell is a record of the parts urlparse separates; the     *)
(* empty cell '' is EmptyUrl.  URL cells carry no surrounding blanks, so   *)
(* .strip() leaves them as they are.                                       *)

EmptyUrl == [netloc |-> "", path |-> ""]

Url(netloc, path) == [netloc |-> netloc, path |-> path]

\* urlparse(url).netloc
Netloc(url) == url.netloc

is_internal_link(source_url, dest_url) == Netloc(source_url) = Netloc(dest_url)

----------------------------------------------------------------------------
(* Inputs: headers, configurations and rows of the CSV files.              *)
(* A row is [cells, is_mechanical]: cells are the values of the columns of *)
(* the header, is_mechanical is {} while the row has no 'is_mechanical'    *)
(* key and {b} once row['is_mechanical'] = b is executed.                  *)

\* the header of the CSV that test_stats_fix.py writes
TestHeader ==
    <<<<"T","y","p","e">>, <<"S","o","u","r","c","e">>, <<"D","e","s","t","i","n","a","t","i","o","n">>, <<"A","n","c","r","a","g","e">>, <<"O","r","i","g","i","n","e"," ","d","u"," ","l","i","e","n">>>>

\* a header that also has the columns rules 2, 4 and 5 read
ExtendedHeader ==
    <<<<"S","o","u","r","c","e">>, <<"D","e","s","t","i","n","a","t","i","o","n">>, <<"A","n","c","h","o","r">>, <<"L","i","n","k"," ","O","r","i","g","i","n">>, <<"X","P","a","t","h">>,
      <<"L","i","n","k"," ","T","y","p","e">>>>

\* the header of an export that names the destination column 'Target'
TargetHeader ==
    <<<<"T","y","p","e">>, <<"S","o","u","r","c","e">>, <<"T","a","r","g","e","t">>, <<"A","n","c","r","a","g","e">>, <<"O","r","i","g","i","n","e"," ","d","u"," ","l","i","e","n">>>>

Headers == {TestHeader, ExtendedHeader, TargetHeader}

DefaultConfig ==
    [mechanical_anchor_patterns |-> <<>>, mechanical_selectors |-> <<>>]

\* patterns and selectors given in the configuration file
CustomConfig ==
    [mechanical_anchor_patterns |-> <<Anchored({<<"p","l","a","n"," ","d","u"," ","s","i","t","e">>}, {})>>,
     mechanical_selectors |-> <<<<".","p","r","o","m","o">>>>]

\* a configuration file whose first pattern does not compile, such as "("
MalformedConfig ==
    [mechanical_anchor_patterns |-> <<Malformed, Anchored({<<"a","c","c","u","e","i","l">>}, {})>>,
     mechanical_selectors |-> <<>>]

ValidConfigs == {DefaultConfig, CustomConfig}

Configs == ValidConfigs \cup {MalformedConfig}

PageA == Url("s.fr", "/a")

PageB == Url("s.fr", "/b")

PageC == Url("s.fr", "/c")

External == Url("x.com", "/")

Descriptive == <<"g","u","i","d","e"," ","s","e","o">>

UpperUrlAnchor == <<"H","T","T","P","S",":","/","/","s",".","f","r">>

PaddedUrlAnchor == <<" ","w","w","w",".","s",".","f","r"," ">>

TestRow(source, destination, anchor, origin) ==
    [cells |-> <<<<"H","y","p","e","r","l","i","e","n">>, source, destination, anchor, origin>>,
     is_mechanical |-> {}]

ExtendedRow(anchor, origin, xpath, link_type) ==
    [cells |-> <<PageA, PageB, anchor, origin, xpath, link_type>>,
     is_mechanical |-> {}]

\* rows a CSV file with TestHeader can hold
InputRows ==
    {TestRow(PageA, PageA, Descriptive, <<"C","o","n","t","e","n","u">>),
     TestRow(PageA, PageB, Descriptive, <<"C","o","n","t","e","n","u">>),
     TestRow(PageB, PageA, Descriptive, <<"C","o","n","t","e","n","u">>),
     TestRow(PageB, PageC, Descriptive, <<"C","o","n","t","e","n","u">>),
     TestRow(PageA, PageC, Descriptive, <<"N","a","v","i","g","a","t","i","o","n">>),
     TestRow(PageB, PageA, Descriptive, <<"N","a","v","i","g","a","t","i","o","n">>),
     TestRow(PageA, PageB, UpperUrlAnchor, <<"C","o","n","t","e","n","u">>),
     TestRow(PageB, PageA, PaddedUrlAnchor, <<"C","o","n","t","e","n","u">>),
     TestRow(PageB, PageC, <<"A","c","c","u","e","i","l">>, <<"C","o","n","t","e","n","u">>),
     TestRow(PageA, External, Descriptive, <<"C","o","n","t","e","n","u">>),
     TestRow(PageA, EmptyUrl, Descriptive, <<"C","o","n","t","e","n","u">>)}

InputAnchors ==
    {Descriptive, UpperUrlAnchor, PaddedUrlAnchor, <<"A","c","c","u","e","i","l">>, <<"p","a","g","e"," ","2">>,
     <<"1","2">>, <<"o","k">>, <<"t","v">>, <<"p","l","a","n"," ","d","u"," ","s","i","t","e">>, <<>>}

InputOrigins ==
    {<<"C","o","n","t","e","n","u">>, <<"N","a","v","i","g","a","t","i","o","n">>, <<"P","i","e","d"," ","d","e"," ","p","a","g","e">>, <<"M","e","n","u"," ","p","r","i","n","c","i","p","a","l">>,
     <<"b","r","e","a","d","c","r","u","m","b">>}

InputXPaths ==
    {<<>>, <<"/","/","m","a","i","n","/","p","/","a">>, <<"/","/","u","l","[","@","c","l","a","s","s","=","'","m","e","n","u","'","]","/","l","i","/","a">>,
     <<"/","/","d","i","v","[","@","c","l","a","s","s","=","'","p","r","o","m","o","'","]","/","a">>, <<"/","/","d","i","v","[","@","r","o","l","e","=","'","b","a","n","n","e","r","'","]","/","a">>}

InputLinkTypes == {<<>>, <<"H","y","p","e","r","l","i","n","k">>, <<"B","r","e","a","d","c","r","u","m","b">>}

\* single rows for the classifier, by header
ClassifierRows(names) ==
    IF names = TestHeader
    THEN {TestRow(PageA, PageB, a, o) : a \in InputAnchors, o \in InputOrigins}
    ELSE {ExtendedRow(a, o, x, t) :
            a \in InputAnchors, o \in InputOrigins, x \in InputXPaths,
            t \in InputLinkTypes}

\* total_editorial of the scored audits
ScoreTotals == {0, 1, 2, 3, 7, 10, 19, 20, 49, 50, 60}

\* total_internal_links of the scored audits
ScoreInternalTotals == {1, 2, 3, 5, 10, 20, 60, 100, 400}

\* the length of a bucket of an audit with total editorial links
ScoreCounts(total) == {0, 1, total} \cap 0..total

----------------------------------------------------------------------------
(* Link classifier: is_mechanical_link *)

navigation_origins ==
    <<<<"n","a","v","i","g","a","t","i","o","n">>, <<"e","n","-","t","U+00EA","t","e">>, <<"p","i","e","d"," ","d","e"," ","p","a","g","e">>, <<"h","e","a","d","e","r">>, <<"f","o","o","t","e","r">>,
      <<"n","a","v">>, <<"m","e","n","u">>>>

navigation_link_types ==
    {<<"n","a","v","i","g","a","t","i","o","n">>, <<"m","e","n","u">>, <<"f","o","o","t","e","r">>, <<"h","e","a","d","e","r">>, <<"b","r","e","a","d","c","r","u","m","b">>}

default_mechanical_anchors ==
    << Anchored({<<"a","c","c","u","e","i","l">>, <<"h","o","m","e">>, <<"m","e","n","u">>, <<"n","a","v","i","g","a","t","i","o","n">>}, {}),
       Anchored({<<"s","u","i","v","a","n","t">>, <<"p","r","U+00E9","c","U+00E9","d","e","n","t">>, <<"n","e","x","t">>, <<"p","r","e","v","i","o","u","s">>},
                {<<"p","a","g","e"," ">>}),
       Anchored({<<"l","i","r","e"," ","l","a"," ","s","u","i","t","e">>, <<"e","n"," ","s","a","v","o","i","r"," ","p","l","u","s">>, <<"v","o","i","r"," ","p","l","u","s">>,
                 <<"r","e","a","d"," ","m","o","r","e">>, <<"m","o","r","e">>}, {}),
       Anchored({<<"c","o","n","t","a","c","t">>, <<"U+00E0"," ","p","r","o","p","o","s">>, <<"m","e","n","t","i","o","n","s"," ","l","U+00E9","g","a","l","e","s">>, <<"c","g","v">>,
                 <<"p","o","l","i","t","i","q","u","e">>, <<"p","r","i","v","a","c","y">>}, {}),
       Anchored({}, {<<>>}),
       Anchored({<<"c","l","i","q","u","e","z"," ","i","c","i">>, <<"c","l","i","q","u","e","r"," ","i","c","i">>, <<"i","c","i">>, <<"c","l","i","c","k"," ","h","e","r","e">>,
                 <<"h","e","r","e">>}, {}),
       Anchored({<<"r","e","t","o","u","r">>, <<"b","a","c","k">>, <<"r","e","t","o","u","r"," ","a","c","c","u","e","i","l">>}, {}),
       Anchored({<<"p","a","s","s","e","r"," ","a","u"," ","c","o","n","t","e","n","u">>, <<"s","k","i","p"," ","t","o"," ","c","o","n","t","e","n","t">>}, {}),
       Anchored({<<"v","o","i","r"," ","t","o","u","t">>, <<"s","e","e"," ","a","l","l">>, <<"v","i","e","w"," ","a","l","l">>}, {}),
       Anchored({<<"+">>, <<"-">>, <<">">>, <<"<">>, <<"U+00BB">>, <<"U+00AB">>}, {}),
       Anchored({<<>>}, {}) >>

mechanical_xpath_patterns ==
    << Search({<<>>}, {<<"h","e","a","d","e","r">>, <<"f","o","o","t","e","r">>, <<"n","a","v">>, <<"n","a","v","i","g","a","t","i","o","n">>, <<"m","e","n","u">>}),
       Search({<<>>}, {<<"b","r","e","a","d","c","r","u","m","b">>, <<"p","a","g","i","n","a","t","i","o","n">>, <<"p","a","g","e","r">>}),
       Search({<<>>}, {<<"s","i","d","e","b","a","r">>, <<"w","i","d","g","e","t">>, <<"a","s","i","d","e">>}),
       Search({<<>>}, {<<"s","o","c","i","a","l">>, <<"s","h","a","r","e">>, <<"p","a","r","t","a","g","e">>}),
       Search({<<>>}, {<<"t","a","g">>, <<"c","a","t","e","g","o","r","y">>, <<"c","a","t","e","g","o","r","i","e">>}),
       Search({<<>>}, {<<"r","e","l","a","t","e","d">>, <<"c","o","n","n","e","x","e">>, <<"s","i","m","i","l","a","i","r","e">>}),
       Search({<<"r","o","l","e","=">>, <<"r","o","l","e","=","\"">>, <<"r","o","l","e","=","'">>},
              {<<"n","a","v","i","g","a","t","i","o","n">>, <<"m","e","n","u">>, <<"b","a","n","n","e","r">>, <<"c","o","n","t","e","n","t","i","n","f","o">>}) >>

default_selectors ==
    <<<<".","m","e","n","u">>, <<".","n","a","v">>, <<".","h","e","a","d","e","r">>, <<".","f","o","o","t","e","r">>, <<".","b","r","e","a","d","c","r","u","m","b">>,
      <<".","p","a","g","i","n","a","t","i","o","n">>, <<".","s","i","d","e","b","a","r">>>>

short_anchor_allowlist == {<<"t","v">>, <<"p","c">>, <<"s","e","o">>, <<"a","p","i">>, <<"f","a","q">>}

url_anchor_prefixes == {<<"h","t","t","p",":","/","/">>, <<"h","t","t","p","s",":","/","/">>, <<"w","w","w",".">>}

\* col.lower().strip(chars), chars being the byte-order mark and the double quote
ColClean(col) == StripChars(Lower(col), {"U+FEFF", "\""})

\* the if/elif chain that assigns one of the four columns
ClassifierColumnRole(col) ==
    LET col_lower == ColClean(col)
    IN  IF Contains(<<"a","n","c","h","o","r">>, col_lower) \/ Contains(<<"a","n","c","r","a","g","e">>, col_lower)
        THEN "anchor"
        ELSE IF Contains(<<"o","r","i","g","i","n">>, col_lower) \/ Contains(<<"o","r","i","g","i","n","e">>, col_lower)
        THEN "origin"
        ELSE IF Contains(<<"x","p","a","t","h">>, col_lower) \/ Contains(<<"c","h","e","m","i","n">>, col_lower)
        THEN "xpath"
        ELSE IF Contains(<<"t","y","p","e">>, col_lower) /\ Contains(<<"l","i","n","k">>, col_lower)
        THEN "link_type"
        ELSE "none"

\* the loop over row.keys(): the last column of a role wins; 0 is None
ClassifierColumn(names, role) ==
    LET idx == {i \in 1..Len(names) : ClassifierColumnRole(names[i]) = role}
    IN  IF idx = {} THEN 0 ELSE SetMax(idx)

\* anchor_col, origin_col, xpath_col and link_type_col of every header.
\* Every row of a file has the keys of the header, so the loop finds the
\* same four columns for each row of the file.
ClassifierColumnsOf ==
    [names \in Headers |->
        [anchor |-> ClassifierColumn(names, "anchor"),
         origin |-> ClassifierColumn(names, "origin"),
         xpath |-> ClassifierColumn(names, "xpath"),
         link_type |-> ClassifierColumn(names, "link_type")]]

ClassifierColumns(names) == ClassifierColumnsOf[names]

\* str(row.get(col, '')) if col else ''
Cell(row, col) == IF col = 0 THEN <<>> ELSE row.cells[col]

Rule1_OriginWithBreadcrumb(origin) ==
    \/ \E i \in 1..Len(navigation_origins) : Contains(navigation_origins[i], origin)
    \/ Contains(<<"b","r","e","a","d","c","r","u","m","b">>, origin)

\* 1. any(x in origin for x in navigation_origins)
Rule1_Origin(origin) ==
    \E i \in 1..Len(navigation_origins) : Contains(navigation_origins[i], origin)

\* 2. link_type in [...]
Rule2_LinkType(link_type) == link_type \in navigation_link_types

\* patterns_to_use
PatternsToUse(cfg) ==
    IF cfg.mechanical_anchor_patterns # <<>>
    THEN cfg.mechanical_anchor_patterns
    ELSE default_mechanical_anchors

\* 3. the loop over patterns_to_use from pattern i on: "match" at the first
\*    pattern found in the anchor, "error" when re.search raises on a
\*    pattern reached before any match, "none" when the loop ends
RECURSIVE AnchorPatternLoop(_, _, _)
AnchorPatternLoop(patterns, i, anchor) ==
    IF i > Len(patterns) THEN "none"
    ELSE IF patterns[i].kind = "malformed" THEN "error"
    ELSE IF ReSearch(patterns[i], anchor) THEN "match"
    ELSE AnchorPatternLoop(patterns, i + 1, anchor)

\* 4. any mechanical_xpath_patterns found in xpath
Rule4_XPath(xpath) ==
    \E i \in 1..Len(mechanical_xpath_patterns) :
        ReSearch(mechanical_xpath_patterns[i], xpath)

\* selectors_to_use
SelectorsToUse(cfg) ==
    IF cfg.mechanical_selectors # <<>>
    THEN cfg.mechanical_selectors
    ELSE default_selectors

\* 5. selector.replace('.', '') in xpath or selector in xpath
Rule5_Selector(cfg, xpath) ==
    \E i \in 1..Len(SelectorsToUse(cfg)) :
        LET selector == SelectorsToUse(cfg)[i]
        IN  Contains(RemoveChar(selector, "."), xpath) \/ Contains(selector, xpath)

\* 6. len(anchor.strip()) <= 2 and anchor.strip() not in [...]
Rule6_ShortAnchor(anchor) ==
    Len(Strip(anchor)) <= 2 /\ Strip(anchor) \notin short_anchor_allowlist

\* 7. anchor.startswith(('http://', 'https://', 'www.'))
Rule7_UrlAnchor(anchor) == \E p \in url_anchor_prefixes : StartsWith(anchor, p)

\* The statement at which is_mechanical_link(row) ends: the number of the
\* rule whose `return True` is taken, 0 for the final `return False`, -1
\* when re.search raises re.error in the loop of rule 3.
ReturnPoint(cfg, cols, row) ==
    LET anchor == Strip(Lower(Cell(row, cols.anchor)))
        origin == Lower(Cell(row, cols.origin))
        xpath == Lower(Cell(row, cols.xpath))
        link_type == Lower(Cell(row, cols.link_type))
        loop == AnchorPatternLoop(PatternsToUse(cfg), 1, anchor)
    IN  IF Rule1_Origin(origin) THEN 1
        ELSE IF Rule2_LinkType(link_type) THEN 2
        ELSE IF loop = "error" THEN -1
        ELSE IF loop = "match" THEN 3
        ELSE IF Rule4_XPath(xpath) THEN 4
        ELSE IF Rule5_Selector(cfg, xpath) THEN 5
        ELSE IF Rule6_ShortAnchor(anchor) THEN 6
        ELSE IF Rule7_UrlAnchor(anchor) THEN 7
        ELSE 0

\* ReturnPoint of the rows a file with TestHeader can hold, computed once
ReturnPointOf ==
    [cfg \in Configs |->
        [row \in InputRows |->
            ReturnPoint(cfg, ClassifierColumns(TestHeader), row)]]

\* ReturnPoint of a row of a file with the given header
ReturnPointAt(cfg, names, row) ==
    IF names = TestHeader /\ row \in InputRows
    THEN ReturnPointOf[cfg][row]
    ELSE ReturnPoint(cfg, ClassifierColumns(names), row)

\* is_mechanical_link(row) raises re.error
Raises(cfg, names, row) == ReturnPointAt(cfg, names, row) = -1

\* the value is_mechanical_link(row) returns, when it returns
is_mechanical_link(cfg, names, row) == ReturnPointAt(cfg, names, row) > 0

----------------------------------------------------------------------------
(* analyze_csv: columns and the row loop *)

\* identify_columns: one field against the mapping built so far
IdentifyField(mapping, names, i) ==
    LET field_lower == Strip(Lower(names[i]))
    IN  IF Contains(<<"s","o","u","r","c","e">>, field_lower) /\ mapping.source = 0
        THEN [mapping EXCEPT !.source = i]
        ELSE IF ContainsAny({<<"d","e","s","t","i","n","a","t","i","o","n">>, <<"t","a","r","g","e","t">>, <<"d","e","s","t">>}, field_lower)
                /\ mapping.dest = 0
        THEN [mapping EXCEPT !.dest = i]
        ELSE IF ContainsAny({<<"a","n","c","h","o","r">>, <<"a","n","c","r","a","g","e">>, <<"l","i","n","k"," ","t","e","x","t">>, <<"t","e","x","t">>},
                            field_lower) /\ mapping.anchor = 0
        THEN [mapping EXCEPT !.anchor = i]
        ELSE IF ContainsAny({<<"o","r","i","g","i","n">>, <<"o","r","i","g","i","n","e">>, <<"t","y","p","e">>}, field_lower)
                /\ mapping.origin = 0
        THEN [mapping EXCEPT !.origin = i]
        ELSE IF ContainsAny({<<"x","p","a","t","h">>, <<"c","h","e","m","i","n">>, <<"p","a","t","h">>}, field_lower)
                /\ mapping.xpath = 0
        THEN [mapping EXCEPT !.xpath = i]
        ELSE mapping

RECURSIVE IdentifyFrom(_, _, _)
IdentifyFrom(mapping, names, i) ==
    IF i > Len(names) THEN mapping
    ELSE IdentifyFrom(IdentifyField(mapping, names, i), names, i + 1)

\* the column_mapping of every header: column numbers, 0 for None
ColumnMappingOf ==
    [names \in Headers |->
        IdentifyFrom([source |-> 0, dest |-> 0, anchor |-> 0, origin |-> 0,
                      xpath |-> 0], names, 1)]

\* identify_columns(fieldnames)
identify_columns(names) == ColumnMappingOf[names]

\* A row is [cells, is_mechanical]: cells are the values of the CSV columns,
\* is_mechanical is {} while the row has no 'is_mechanical' key and {b} once
\* row['is_mechanical'] = b is executed.

\* row.get('is_mechanical', False)
GetIsMechanical(link) ==
    IF link.is_mechanical = {} THEN FALSE
    ELSE CHOOSE b \in link.is_mechanical : TRUE

\* one iteration of `for i, row in enumerate(rows)`, on the loop's locals
RowStep(acc, cfg, names, column_mapping, row) ==
    LET source == row.cells[column_mapping.source]
        destination == row.cells[column_mapping.dest]
        return_point == ReturnPointAt(cfg, names, row)
    IN  IF source = EmptyUrl \/ destination = EmptyUrl
        THEN [acc EXCEPT !.error_count = @ + 1]
        ELSE IF ~is_internal_link(source, destination)
        THEN [acc EXCEPT !.external_links = Append(@, row)]
        ELSE IF return_point = -1
        THEN \* is_mechanical_link raised after internal_links.append(row):
             \* the except of the loop body counts an error and the row
             \* keeps no is_mechanical key
             [acc EXCEPT !.internal_links = Append(@, row),
                         !.error_count = @ + 1]
        ELSE IF return_point > 0
        THEN [acc EXCEPT !.internal_links =
                             Append(@, [row EXCEPT !.is_mechanical = {TRUE}]),
                         !.mechanical_count = @ + 1]
        ELSE [acc EXCEPT !.internal_links =
                             Append(@, [row EXCEPT !.is_mechanical = {FALSE}]),
                         !.editorial_count = @ + 1]

RECURSIVE RowLoop(_, _, _, _, _, _)
RowLoop(acc, cfg, names, column_mapping, rs, i) ==
    IF i > Len(rs) THEN acc
    ELSE RowLoop(RowStep(acc, cfg, names, column_mapping, rs[i]),
                 cfg, names, column_mapping, rs, i + 1)

----------------------------------------------------------------------------
(* analyze_linking_patterns *)

MaxAnchorRepetition == 5

\* a filter that keeps every link
EditorialLinksAll(internal_links) == internal_links

\* editorial_links = [link for link in internal_links
\*                    if not link.get('is_mechanical', False)]
EditorialLinks(internal_links) ==
    SelectSeq(internal_links, LAMBDA link : ~GetIsMechanical(link))

\* the if/elif chain over internal_links[0].keys()
PatternColumnRole(col) ==
    LET col_clean == ColClean(col)
    IN  IF Contains(<<"s","o","u","r","c","e">>, col_clean) THEN "source"
        ELSE IF Contains(<<"d","e","s","t","i","n","a","t","i","o","n">>, col_clean) THEN "dest"
        ELSE IF Contains(<<"a","n","c","h","o","r">>, col_clean) \/ Contains(<<"a","n","c","r","a","g","e">>, col_clean)
        THEN "anchor"
        ELSE "none"

\* the last column of a role wins; 0 is None.  The key 'is_mechanical',
\* which classified rows also carry, falls in no branch of the chain.
PatternColumnsOf ==
    [names \in Headers |->
        [role \in {"source", "dest", "anchor"} |->
            LET idx == {i \in 1..Len(names) : PatternColumnRole(names[i]) = role}
            IN  IF idx = {} THEN 0 ELSE SetMax(idx)]]

\* source_col, dest_col, anchor_col: None when internal_links is empty
PatternColumn(internal_links, names, role) ==
    IF internal_links = <<>> THEN 0 ELSE PatternColumnsOf[names][role]

\* collections.Counter over the values of a list
Counter(values) ==
    [k \in Range(values) |->
        Cardinality({i \in 1..Len(values) : values[i] = k})]

ColumnValues(links, col) == [i \in 1..Len(links) |-> links[i].cells[col]]

NonEmpty(values) == SelectSeq(values, LAMBDA v : v # <<>>)

StrippedValues(links, col) ==
    [i \in 1..Len(links) |-> Strip(links[i].cells[col])]

AllPagesWithDestinations(internal_links, source_col, dest_col) ==
    (IF source_col = 0 THEN {}
     ELSE {internal_links[i].cells[source_col] : i \in 1..Len(internal_links)})
    \cup
    (IF dest_col = 0 THEN {}
     ELSE {internal_links[i].cells[dest_col] : i \in 1..Len(internal_links)})

\* all_pages: link.get(source_col, '') of every internal link
AllPages(internal_links, source_col, dest_col) ==
    IF source_col = 0 THEN {}
    ELSE {internal_links[i].cells[source_col] : i \in 1..Len(internal_links)}

LinkedPagesMechanical(internal_links, dest_col) ==
    IF dest_col = 0 THEN {}
    ELSE {internal_links[i].cells[dest_col] :
            i \in {j \in 1..Len(internal_links) :
                     GetIsMechanical(internal_links[j])}}

LinkedPagesAnyLink(internal_links, dest_col) ==
    IF dest_col = 0 THEN {}
    ELSE {internal_links[i].cells[dest_col] : i \in 1..Len(internal_links)}

\* linked_pages: link.get(dest_col, '') of the links that are not mechanical
LinkedPages(internal_links, dest_col) ==
    IF dest_col = 0 THEN {}
    ELSE {internal_links[i].cells[dest_col] :
            i \in {j \in 1..Len(internal_links) :
                     ~GetIsMechanical(internal_links[j])}}

\* a quotient a / b kept exact, as the fraction num / den
Fraction(num, den) == [num |-> num, den |-> den]

analyze_linking_patterns(cfg, names, internal_links) ==
    LET editorial_links == EditorialLinks(internal_links)
        source_col == PatternColumn(internal_links, names, "source")
        dest_col == PatternColumn(internal_links, names, "dest")
        anchor_col == PatternColumn(internal_links, names, "anchor")
        source_counter ==
            IF source_col = 0 THEN <<>>
            ELSE Counter(ColumnValues(editorial_links, source_col))
        dest_counter ==
            IF dest_col = 0 THEN <<>>
            ELSE Counter(ColumnValues(editorial_links, dest_col))
        anchor_counter ==
            IF anchor_col = 0 THEN <<>>
            ELSE Counter(NonEmpty(StrippedValues(editorial_links, anchor_col)))
        all_pages == AllPages(internal_links, source_col, dest_col)
        linked_pages == LinkedPages(internal_links, dest_col)
    IN  [source_counter |-> source_counter,
         dest_counter |-> dest_counter,
         anchor_counter |-> anchor_counter,
         over_optimized_anchors |->
            {a \in DOMAIN anchor_counter : anchor_counter[a] > MaxAnchorRepetition},
         all_pages |-> all_pages,
         linked_pages |-> linked_pages,
         orphan_pages |-> all_pages \ linked_pages,
         stats |->
            [total_pages |-> Cardinality(all_pages),
             total_internal_links |-> Len(internal_links),
             editorial_links |-> Len(editorial_links),
             mechanical_links |-> Len(internal_links) - Len(editorial_links),
             avg_editorial_per_page |->
                IF Cardinality(all_pages) > 0
                THEN Fraction(Len(editorial_links), Cardinality(all_pages))
                ELSE Fraction(0, 1),
             editorial_ratio |->
                IF Len(internal_links) > 0
                THEN Fraction(Len(editorial_links) * 100, Len(internal_links))
                ELSE Fraction(0, 1)]]

----------------------------------------------------------------------------
(* analyze_editorial_quality *)

\* the if/elif chain over editorial_links[0].keys()
QualityColumnRole(col) ==
    LET col_clean == ColClean(col)
    IN  IF Contains(<<"a","n","c","h","o","r">>, col_clean) \/ Contains(<<"a","n","c","r","a","g","e">>, col_clean)
        THEN "anchor"
        ELSE IF Contains(<<"d","e","s","t","i","n","a","t","i","o","n">>, col_clean) THEN "dest"
        ELSE "none"

QualityColumnsOf ==
    [names \in Headers |->
        [role \in {"anchor", "dest"} |->
            LET idx == {i \in 1..Len(names) : QualityColumnRole(names[i]) = role}
            IN  IF idx = {} THEN 0 ELSE SetMax(idx)]]

\* anchor_col, dest_col: None when editorial_links is empty
QualityColumn(editorial_links, names, role) ==
    IF editorial_links = <<>> THEN 0 ELSE QualityColumnsOf[names][role]

\* a test that lets three occurrences of a word through
KeywordStuffedOverThree(anchor) ==
    LET words == Split(Lower(anchor))
    IN  \E w \in Range(words) :
            /\ Len(w) > 3
            /\ Cardinality({i \in 1..Len(words) : words[i] = w}) > 3

\* word_freq of the words longer than 3, any(freq > 2)
KeywordStuffed(anchor) ==
    LET words == Split(Lower(anchor))
    IN  \E w \in Range(words) :
            /\ Len(w) > 3
            /\ Cardinality({i \in 1..Len(words) : words[i] = w}) > 2

\* any(anchor.startswith(prefix) for prefix in [...])
UrlAnchor(anchor) == \E p \in url_anchor_prefixes : StartsWith(anchor, p)

\* the if/elif/elif on word_count: the length bucket of an anchor, if any
LengthBucket(anchor) ==
    LET word_count == Len(Split(anchor))
    IN  IF word_count = 1 /\ Len(anchor) < 4 THEN "too_short"
        ELSE IF word_count > 8 THEN "too_long"
        ELSE IF 2 <= word_count /\ word_count <= 6 THEN "good_quality"
        ELSE "none"

\* the five lists of {'anchor', 'dest'} built by the loop over editorial_links
AnchorQuality(editorial_links, names) ==
    LET anchor_col == QualityColumn(editorial_links, names, "anchor")
        dest_col == QualityColumn(editorial_links, names, "dest")
        entry(link) ==
            LET anchor == IF anchor_col = 0 THEN <<>>
                          ELSE Strip(link.cells[anchor_col])
            IN  [anchor |-> anchor,
                 dest |-> IF dest_col = 0 THEN EmptyUrl ELSE link.cells[dest_col],
                 length |-> LengthBucket(anchor),
                 keyword_stuffed |-> KeywordStuffed(anchor),
                 url_anchor |-> UrlAnchor(anchor)]
        entries == SelectSeq([i \in 1..Len(editorial_links) |->
                                 entry(editorial_links[i])],
                             LAMBDA e : e.anchor # <<>>)
        bucket(es) == [i \in 1..Len(es) |->
                          [anchor |-> es[i].anchor, dest |-> es[i].dest]]
    IN  [too_short |->
            bucket(SelectSeq(entries, LAMBDA e : e.length = "too_short")),
         too_long |->
            bucket(SelectSeq(entries, LAMBDA e : e.length = "too_long")),
         good_quality |->
            bucket(SelectSeq(entries, LAMBDA e : e.length = "good_quality")),
         keyword_stuffed |->
            bucket(SelectSeq(entries, LAMBDA e : e.keyword_stuffed)),
         url_anchors |-> bucket(SelectSeq(entries, LAMBDA e : e.url_anchor))]

\* len(anchor_quality[k]) of each bucket: all the score reads of the buckets
BucketLens(anchor_quality) ==
    [too_short |-> Len(anchor_quality.too_short),
     too_long |-> Len(anchor_quality.too_long),
     good_quality |-> Len(anchor_quality.good_quality),
     keyword_stuffed |-> Len(anchor_quality.keyword_stuffed),
     url_anchors |-> Len(anchor_quality.url_anchors)]

----------------------------------------------------------------------------
(* calculate_editorial_score.  The score is kept exact: a value x is the   *)
(* integer x * 100 * total_editorial, and the result is in tenths          *)
(* (round(x, 1) * 10).  Binary floating point can differ from the exact    *)
(* value by one unit in the last place only.                               *)

\* editorial_ratio >= bound, for the fraction editorial_ratio
AtLeast(ratio, bound) == ratio.num >= bound * ratio.den

BaseScore(editorial_ratio) ==
    IF AtLeast(editorial_ratio, 70) THEN 90
    ELSE IF AtLeast(editorial_ratio, 50) THEN 70
    ELSE IF AtLeast(editorial_ratio, 30) THEN 50
    ELSE IF AtLeast(editorial_ratio, 15) THEN 30
    ELSE 10

\* the if/elif/else that sets volume_penalty
VolumePenalty(total_editorial) ==
    IF total_editorial < 50 THEN 10
    ELSE IF total_editorial < 20 THEN 20
    ELSE 0

IntMin(a, b) == IF a <= b THEN a ELSE b

IntMax(a, b) == IF a >= b THEN a ELSE b

Unclamped(x, lo, hi) == x

\* max(lo, min(hi, x))
Clamp(x, lo, hi) == IntMax(lo, IntMin(hi, x))

\* nearest integer to num / den for num >= 0, a tie to the even one
RoundHalfEven(num, den) ==
    LET q == num \div den
        r == num % den
    IN  IF 2 * r < den THEN q
        ELSE IF 2 * r > den THEN q + 1
        ELSE IF q % 2 = 0 THEN q ELSE q + 1

\* round(num / den, 1) * 10
RoundTenths(num, den) ==
    IF num < 0 THEN -RoundHalfEven(-10 * num, den)
    ELSE RoundHalfEven(10 * num, den)

\* final_score before the clamp, times 100 * total_editorial
FinalScoreScaled(lens, total_editorial, editorial_ratio) ==
    LET base_score == BaseScore(editorial_ratio)
        scale == 100 * total_editorial
        penalties == base_score * (lens.too_short * 15 + lens.too_long * 10
                                   + lens.keyword_stuffed * 20
                                   + lens.url_anchors * 25)
        good_quality_bonus == IntMin(5 * scale, lens.good_quality * 10 * 100)
        volume_penalty == VolumePenalty(total_editorial)
    IN  base_score * scale - penalties + good_quality_bonus
        - volume_penalty * scale

\* calculate_editorial_score(anchor_quality, total_editorial, editorial_ratio,
\* total_internal_links), in tenths; lens are the lengths of the buckets
calculate_editorial_score(lens, total_editorial, editorial_ratio, total_internal_links) ==
    IF total_editorial = 0 THEN 0
    ELSE LET scale == 100 * total_editorial
             final_score ==
                 Clamp(FinalScoreScaled(lens, total_editorial, editorial_ratio),
                       0, 100 * scale)
         IN  RoundTenths(final_score, scale)

analyze_editorial_quality(names, internal_links, stats) ==
    LET editorial_links == EditorialLinks(internal_links)
        anchor_quality == AnchorQuality(editorial_links, names)
    IN  [anchor_quality |-> anchor_quality,
         editorial_quality_score |->
            calculate_editorial_score(BucketLens(anchor_quality),
                                      Len(editorial_links),
                                      stats.editorial_ratio,
                                      stats.total_internal_links)]

----------------------------------------------------------------------------
(* CamemBERTSemanticAnalyzer: the embedding cache *)

\* np.zeros(dimension): what a text too short to encode maps to
Zeros == [vector |-> "zeros", of |-> <<>>]

\* the row self.model.encode computes for a text
Embedding(text) == [vector |-> "embedding", of |-> text]

\* a cache file pickle.load reads back as the dumped vector
Pickled(embedding) == [kind |-> "pickle", vector |-> embedding]

\* a cache file on which pickle.load raises
Corrupt == [kind |-> "corrupt", vector |-> Zeros]

\* self.model is not None, after the attempts to load one model
_load_model(m) == m = "loaded"

\* the md5 digest of the text: equal texts, equal digests
_get_cache_key(text) == <<"md5", text>>

\* a lookup that removes the file it has read
_get_cached_embedding_evicting(files, dir, text) ==
    LET cache_key == _get_cache_key(text)
    IN  IF cache_key \notin DOMAIN files
        THEN [raised |-> FALSE, cached |-> {}, files |-> files]
        ELSE [raised |-> FALSE,
              cached |-> IF files[cache_key].kind = "pickle"
                         THEN {files[cache_key].vector} ELSE {},
              files |-> [k \in DOMAIN files \ {cache_key} |-> files[k]]]

\* the file is read; a file that cannot be read is removed, and in a
\* directory that is not writable os.remove raises inside the handler
_get_cached_embedding(files, dir, text) ==
    LET cache_key == _get_cache_key(text)
    IN  IF cache_key \notin DOMAIN files
        THEN [raised |-> FALSE, cached |-> {}, files |-> files]
        ELSE IF files[cache_key].kind = "pickle"
        THEN [raised |-> FALSE, cached |-> {files[cache_key].vector},
              files |-> files]
        ELSE IF dir = "writable"
        THEN [raised |-> FALSE, cached |-> {},
              files |-> [k \in DOMAIN files \ {cache_key} |-> files[k]]]
        ELSE [raised |-> TRUE, cached |-> {}, files |-> files]

\* a save that leaves the directory as it was
_cache_embedding_not_saved(files, dir, text, embedding) == files

\* the file is created and the vector dumped; when the file cannot be
\* created the failure is printed and the directory is left as it was
_cache_embedding(files, dir, text, embedding) ==
    IF dir = "writable"
    THEN [k \in DOMAIN files \cup {_get_cache_key(text)} |->
             IF k = _get_cache_key(text) THEN Pickled(embedding)
             ELSE files[k]]
    ELSE files

MinTextLength == 3

\* the loop over the texts: zeros, cached vector, or placeholder and miss
RECURSIVE CacheLookupLoop(_, _, _, _)
CacheLookupLoop(st, dir, texts, i) ==
    IF i > Len(texts) \/ st.raised THEN st
    ELSE LET text == texts[i]
             lookup == _get_cached_embedding(st.files, dir, text)
         IN  IF text = <<>> \/ Len(Strip(text)) < MinTextLength
             THEN CacheLookupLoop(
                      [st EXCEPT !.embeddings = Append(@, {Zeros})],
                      dir, texts, i + 1)
             ELSE IF lookup.raised
             THEN [st EXCEPT !.raised = TRUE]
             ELSE IF lookup.cached # {}
             THEN CacheLookupLoop(
                      [st EXCEPT !.embeddings = Append(@, lookup.cached),
                                 !.files = lookup.files],
                      dir, texts, i + 1)
             ELSE CacheLookupLoop(
                      [st EXCEPT !.cache_indices = Append(@, i),
                                 !.texts_to_encode = Append(@, text),
                                 !.embeddings = Append(@, {}),
                                 !.files = lookup.files],
                      dir, texts, i + 1)

\* the loop over the new vectors: each fills its placeholder and is cached
RECURSIVE CacheStoreLoop(_, _, _)
CacheStoreLoop(st, dir, j) ==
    IF j > Len(st.texts_to_encode) THEN st
    ELSE LET embedding == Embedding(st.texts_to_encode[j])
             original_idx == st.cache_indices[j]
         IN  CacheStoreLoop(
                 [st EXCEPT !.embeddings[original_idx] = {embedding},
                            !.files = _cache_embedding(
                                          @, dir, st.texts_to_encode[j],
                                          embedding)],
                 dir, j + 1)

\* encode_with_cache(texts): the array returned (np.array([]) is <<>>), the
\* directory left behind and the batches self.model.encode received
encode_with_cache(files, dir, m, texts) ==
    LET looked == CacheLookupLoop(
                      [raised |-> FALSE, embeddings |-> <<>>,
                       texts_to_encode |-> <<>>, cache_indices |-> <<>>,
                       files |-> files],
                      dir, texts, 1)
        stored == CacheStoreLoop(looked, dir, 1)
    IN  IF ~_load_model(m)
        THEN [raised |-> FALSE, returned |-> <<>>, files |-> files,
              encoded |-> <<>>]
        ELSE IF looked.raised
        THEN [raised |-> TRUE, returned |-> <<>>, files |-> looked.files,
              encoded |-> <<>>]
        ELSE [raised |-> FALSE,
              returned |-> [i \in 1..Len(texts) |->
                               CHOOSE v \in stored.embeddings[i] : TRUE],
              files |-> stored.files,
              encoded |-> IF stored.texts_to_encode = <<>> THEN <<>>
                          ELSE <<stored.texts_to_encode>>]

\* clear_cache(): every file of the directory is removed, one by one
clear_cache(files, dir) ==
    [raised |-> DOMAIN files # {} /\ dir # "writable",
     returned |-> <<>>,
     files |-> IF dir = "writable" THEN <<>> ELSE files,
     encoded |-> <<>>]

----------------------------------------------------------------------------
(* Texts and cache directories of the model *)

CacheTexts == {<<>>, <<" ","a"," ">>, <<"s","e","o">>, <<"g","u","i","d","e"," ","s","e","o">>}

TextLists == UNION {[1..n -> CacheTexts] : n \in 0..MaxTexts}

\* the directories holding a readable or a corrupt file for some of the texts
\* encode_with_cache looks up
InitialCaches ==
    LET looked_up == {t \in CacheTexts : Len(Strip(t)) >= MinTextLength}
    IN  {[k \in {_get_cache_key(t) : t \in S} |->
             IF k[2] \in C THEN Corrupt ELSE Pickled(Embedding(k[2]))]
         : S \in SUBSET looked_up, C \in SUBSET looked_up}

----------------------------------------------------------------------------
(* CamemBERTSemanticAnalyzer: coherence, themes and gaps *)

\* sklearn's cosine_similarity of two rows, in hundredths: 0 with a row of
\* zeros, 1 between the rows of one text, and s, an input of the model,
\* between the rows of two different texts
cosine_similarity(u, v, s) ==
    IF u.vector = "zeros" \/ v.vector = "zeros" THEN 0
    ELSE IF u = v THEN 100
    ELSE s

\* analyze_semantic_coherence(anchors, page_contents): the list of scores, in
\* hundredths
analyze_semantic_coherence(files, dir, m, anchors, page_contents, s) ==
    LET anchor_embeddings == encode_with_cache(files, dir, m, anchors)
        content_embeddings ==
            encode_with_cache(anchor_embeddings.files, dir, m, page_contents)
        done == [raised |-> FALSE, returned |-> <<>>,
                 files |-> content_embeddings.files,
                 encoded |-> anchor_embeddings.encoded
                                \o content_embeddings.encoded]
    IN  IF anchors = <<>> \/ page_contents = <<>>
        THEN [raised |-> FALSE, returned |-> <<>>, files |-> files,
              encoded |-> <<>>]
        ELSE IF anchor_embeddings.raised
        THEN [anchor_embeddings EXCEPT !.returned = <<>>]
        ELSE IF content_embeddings.raised
        THEN [done EXCEPT !.raised = TRUE]
        ELSE IF anchor_embeddings.returned = <<>>
                \/ content_embeddings.returned = <<>>
        THEN [done EXCEPT !.returned = [i \in 1..Len(anchors) |-> 0]]
        ELSE [done EXCEPT !.returned =
                 [i \in 1..Len(anchors) |->
                     IF i <= Len(content_embeddings.returned)
                     THEN cosine_similarity(anchor_embeddings.returned[i],
                                            content_embeddings.returned[i], s)
                     ELSE 0]]

french_stop_words ==
    {<<"d","a","n","s">>, <<"a","v","e","c">>, <<"p","o","u","r">>, <<"s","u","r">>, <<"s","o","u","s">>, <<"v","e","r","s">>, <<"c","h","e","z">>,
     <<"s","a","n","s">>, <<"c","o","n","t","r","e">>, <<"d","e","p","u","i","s">>, <<"p","e","n","d","a","n","t">>, <<"a","v","a","n","t">>, <<"a","p","r","U+00E8","s">>,
     <<"e","n","t","r","e">>, <<"p","a","r","m","i">>, <<"s","e","l","o","n">>, <<"n","o","t","r","e">>, <<"v","o","t","r","e">>, <<"l","e","u","r">>,
     <<"c","e","t","t","e">>, <<"c","e","s">>, <<"t","o","u","s">>, <<"t","o","u","t","e","s">>, <<"p","l","u","s">>, <<"m","o","i","n","s">>,
     <<"t","r","U+00E8","s">>, <<"b","i","e","n">>, <<"e","n","c","o","r","e">>, <<"a","u","s","s","i">>, <<"d","o","n","c">>}

\* str.title(): a letter is upper-cased after a character that is not a
\* letter and lower-cased after a letter (letters here: what is neither
\* white space, digit nor punctuation; only a-z and A-Z change case)
Title(s) ==
    LET uncased == Whitespace \cup Digits
                     \cup {"+", "(", ")", "'", "-", ".", ",", "/", ":", "&"}
        upper(c) == IF \E i \in 1..26 : LowerCase[i] = c
                    THEN UpperCase[CHOOSE i \in 1..26 : LowerCase[i] = c]
                    ELSE c
    IN  [i \in 1..Len(s) |->
            IF i = 1 \/ s[i - 1] \in uncased THEN upper(s[i])
            ELSE LowerChar(s[i])]

\* str(n) of a natural number
RECURSIVE Str(_)
Str(n) ==
    LET digit == <<"0","1","2","3","4","5","6","7","8","9">>[(n % 10) + 1]
    IN  IF n < 10 THEN <<digit>> ELSE Append(Str(n \div 10), digit)

\* all_words: the words of the anchors from the i-th on that are longer than
\* 3 characters and not stop words, in reading order
RECURSIVE MeaningfulWords(_, _)
MeaningfulWords(anchors, i) ==
    IF i > Len(anchors) THEN <<>>
    ELSE SelectSeq(Split(Lower(anchors[i])),
                   LAMBDA w : Len(w) > 3 /\ w \notin french_stop_words)
            \o MeaningfulWords(anchors, i + 1)

\* the name under which a cluster of min_cluster_size anchors or more is
\* stored: none when all_words is empty, else the two most frequent words,
\* the most frequent word and the size, or cluster_id.  most_common(3) orders
\* the words by count, those of equal count by first occurrence
ClusterName(anchors, cluster_id) ==
    LET all_words == MeaningfulWords(anchors, 1)
        count(w) == Cardinality({k \in 1..Len(all_words) : all_words[k] = w})
        first(w) == SetMin({k \in 1..Len(all_words) : all_words[k] = w})
        before(v, w) == \/ count(v) > count(w)
                        \/ count(v) = count(w) /\ first(v) < first(w)
        most_common == {w \in Range(all_words) :
                           Cardinality({v \in Range(all_words) :
                                            before(v, w)}) < 3}
        top == {w \in most_common : count(w) >= 2}
        top_words(k) == CHOOSE w \in top :
                           Cardinality({v \in top : before(v, w)}) = k - 1
    IN  IF all_words = <<>> THEN {}
        ELSE IF Cardinality(top) >= 2
        THEN {Title(top_words(1) \o <<" ","+"," ">> \o top_words(2))}
        ELSE IF Cardinality(top) = 1
        THEN {Title(top_words(1)) \o <<" ","(">> \o Str(Len(anchors))
                 \o <<" ","l","i","e","n","s",")">>}
        ELSE {cluster_id}

\* a diversity test that lets every list through
DiversityNeverTooLow(filtered_anchors) == FALSE

\* diversity_ratio < 0.3: fewer than three distinct lower-cased, stripped
\* anchors for ten filtered anchors
DiversityTooLow(filtered_anchors) ==
    LET unique_anchors ==
            {Strip(Lower(filtered_anchors[i])) : i \in 1..Len(filtered_anchors)}
    IN  10 * Cardinality(unique_anchors) < 3 * Len(filtered_anchors)

\* a grouping that puts the noise in every cluster
ClusterMembersWithNoise(filtered_anchors, cluster_labels, label) ==
    SelectSeq(filtered_anchors, LAMBDA a : TRUE)

\* clusters[cluster_id]: the anchors whose row has the label, in list order
ClusterMembers(filtered_anchors, cluster_labels, label) ==
    LET at == SelectSeq([i \in 1..Len(cluster_labels) |-> i],
                        LAMBDA i : cluster_labels[i] = label)
    IN  [k \in 1..Len(at) |-> filtered_anchors[at[k]]]

\* cluster_semantic_themes(anchor_texts, min_cluster_size); first and second
\* are the labels DBSCAN gives to the rows in its first and second run.
\* Besides the mapping returned (theme name -> anchors) the result keeps
\* filtered_anchors, the labels of the first run, the labels used, the
\* number of DBSCAN runs and the number of encode_with_cache calls
cluster_semantic_themes(files, dir, m, anchor_texts, min_cluster_size, first, second) ==
    LET filtered_anchors ==
            SelectSeq(anchor_texts, LAMBDA a : a # <<>> /\ Len(Strip(a)) > 3)
        embeddings == encode_with_cache(files, dir, m, filtered_anchors)
        max_cluster_size ==
            Cardinality({i \in 1..Len(first) : first[i] # -1})
        rerun == /\ Cardinality(Range(first)) = 2
                 /\ -1 \in Range(first)
                 /\ 2 * max_cluster_size > Len(filtered_anchors)
        cluster_labels == IF rerun THEN second ELSE first
        members(label) ==
            ClusterMembers(filtered_anchors, cluster_labels, label)
        cluster_id(label) == <<"T","h","U+00E8","m","e"," ">> \o Str(label + 1)
        name(label) == ClusterName(members(label), cluster_id(label))
        named == {label \in Range(cluster_labels) \ {-1} :
                     /\ Len(members(label)) >= min_cluster_size
                     /\ name(label) # {}}
        position(label) ==
            SetMin({i \in 1..Len(cluster_labels) : cluster_labels[i] = label})
        last(cluster_name) ==
            CHOOSE label \in named :
                /\ name(label) = {cluster_name}
                /\ \A other \in named :
                      name(other) = {cluster_name}
                         => position(other) <= position(label)
        gated == [raised |-> FALSE, returned |-> <<>>, files |-> files,
                  encoded |-> <<>>, filtered |-> filtered_anchors,
                  first_labels |-> <<>>, labels |-> <<>>, runs |-> 0,
                  embedder_calls |-> 0]
        encoded == [gated EXCEPT !.files = embeddings.files,
                                 !.encoded = embeddings.encoded,
                                 !.embedder_calls = 1]
    IN  IF anchor_texts = <<>> \/ Len(anchor_texts) < min_cluster_size
        THEN [gated EXCEPT !.filtered = <<>>]
        ELSE IF Len(filtered_anchors) < min_cluster_size THEN gated
        ELSE IF DiversityTooLow(filtered_anchors) THEN gated
        ELSE IF embeddings.raised THEN [encoded EXCEPT !.raised = TRUE]
        ELSE IF embeddings.returned = <<>> THEN encoded
        ELSE [encoded EXCEPT
                 !.first_labels = first,
                 !.labels = cluster_labels,
                 !.runs = IF rerun THEN 2 ELSE 1,
                 !.returned =
                     [cluster_name \in UNION {name(label) : label \in named}
                         |-> members(last(cluster_name))]]

TopOpportunities == 20

\* find_semantic_gaps(page_contents, threshold): page_contents is the list of
\* the (url, content) items of the dict, threshold and similarities are in
\* hundredths.  The pairs i < j above the threshold are ordered as the stable
\* descending sort leaves the list the two loops build: by similarity, then
\* by i, then by j
find_semantic_gaps(files, dir, m, page_contents, threshold, s) ==
    LET urls == [i \in 1..Len(page_contents) |-> page_contents[i].url]
        contents == [i \in 1..Len(page_contents) |-> page_contents[i].content]
        embeddings == encode_with_cache(files, dir, m, contents)
        similarities(e) ==
            [p \in {q \in (1..Len(e)) \X (1..Len(e)) : q[1] < q[2]} |->
                cosine_similarity(e[p[1]], e[p[2]], s)]
        top(similarity_matrix, found) ==
            LET before(p, q) ==
                    \/ similarity_matrix[p] > similarity_matrix[q]
                    \/ /\ similarity_matrix[p] = similarity_matrix[q]
                       /\ (p[1] < q[1] \/ (p[1] = q[1] /\ p[2] < q[2]))
                sorted(k) ==
                    CHOOSE p \in found :
                       Cardinality({q \in found : before(q, p)}) = k - 1
                opportunity(p) == <<urls[p[1]], urls[p[2]],
                                    similarity_matrix[p]>>
            IN  [k \in 1..IntMin(Cardinality(found), TopOpportunities) |->
                    opportunity(sorted(k))]
        opportunities(similarity_matrix) ==
            top(similarity_matrix,
                {p \in DOMAIN similarity_matrix :
                    similarity_matrix[p] > threshold})
        done(e) == [raised |-> e.raised, files |-> e.files,
                    encoded |-> e.encoded,
                    returned |-> IF e.raised \/ e.returned = <<>> THEN <<>>
                                 ELSE opportunities(similarities(e.returned))]
    IN  IF Len(page_contents) < 2
        THEN [raised |-> FALSE, returned |-> <<>>, files |-> files,
              encoded |-> <<>>]
        ELSE done(embeddings)

----------------------------------------------------------------------------
(* Anchors of the model *)

\* every list of up to MaxAnchors anchors, the ten anchors of the diversity
\* example (nine 'cliquez ici', one other), two pairs of anchors that share
\* one frequent word, and two anchors without a common word
AnchorLists ==
    UNION {[1..n -> {<<"s","e","o">>, <<"g","u","i","d","e"," ","s","e","o">>, <<"G","u","i","d","e"," ","S","E","O"," ">>, <<"g","u","i","d","e"," ","p","a","r","i","s">>,
                     <<"a"," ","b"," ","c">>}] : n \in 0..MaxAnchors}
       \cup {[i \in 1..10 |->
                 IF i = 10 THEN <<"g","u","i","d","e"," ","s","e","o">> ELSE <<"c","l","i","q","u","e","z"," ","i","c","i">>],
             <<<<"g","u","i","d","e"," ","s","e","o">>, <<"G","u","i","d","e"," ","S","E","O"," ">>, <<"g","u","i","d","e"," ","p","a","r","i","s">>, <<"g","u","i","d","e"," ","l","y","o","n">>>>,
             <<<<"g","u","i","d","e"," ","s","e","o">>, <<"a","u","d","i","t"," ","p","a","r","i","s">>>>}

\* the labels DBSCAN can give to the rows of the anchors: -1 for noise,
\* clusters numbered from 0, equal rows (equal texts) labelled alike
Labellings(anchors) ==
    {l \in [1..Len(anchors) -> -1..(MaxClusters - 1)] :
        /\ \A i, j \in 1..Len(anchors) : anchors[i] = anchors[j] => l[i] = l[j]
        /\ \A c \in 1..(MaxClusters - 1) :
              c \in Range(l) => (c - 1) \in Range(l)}

----------------------------------------------------------------------------
(* analyze_csv *)

NoAudit == [returned |-> "not called"]

ReturnedNone == [returned |-> "None"]

\* analyze_csv(csv_path) up to the quality analysis: what the report is
\* generated from when the semantic stage adds nothing
analyze_csv(cfg, names, rs) ==
    LET column_mapping == identify_columns(names)
        generated(loop, analysis) ==
            [returned |-> "report",
             internal_links |-> loop.internal_links,
             external_links |-> loop.external_links,
             mechanical_count |-> loop.mechanical_count,
             editorial_count |-> loop.editorial_count,
             error_count |-> loop.error_count,
             analysis |-> analysis,
             quality |-> analyze_editorial_quality(
                             names, loop.internal_links, analysis.stats)]
        analysed(loop) ==
            generated(loop, analyze_linking_patterns(cfg, names,
                                                     loop.internal_links))
    IN  IF rs = <<>> THEN ReturnedNone
        ELSE IF column_mapping.source = 0 \/ column_mapping.dest = 0
        THEN ReturnedNone
        ELSE analysed(RowLoop([internal_links |-> <<>>,
                               external_links |-> <<>>,
                               mechanical_count |-> 0, editorial_count |-> 0,
                               error_count |-> 0],
                              cfg, names, column_mapping, rs, 1))

\* analyze_semantic_advanced(editorial_links, anchor_col, dest_col, {}): the
\* clustering of the stripped anchors longer than 3 characters.  page_data is
\* empty (the crawl exported no content file), which skips the coherence and
\* the opportunities.  results is {} for the empty dict
analyze_semantic_advanced(files, dir, m, editorial_links, anchor_col, first, second) ==
    LET anchors ==
            SelectSeq([i \in 1..Len(editorial_links) |->
                          Strip(Cell(editorial_links[i], anchor_col))],
                      LAMBDA anchor : Len(anchor) > 3)
        results(semantic_clusters) ==
            [raised |-> semantic_clusters.raised,
             results |-> IF semantic_clusters.raised THEN {}
                         ELSE {[semantic_clusters |->
                                   semantic_clusters.returned]},
             files |-> semantic_clusters.files,
             encoded |-> semantic_clusters.encoded,
             filtered |-> semantic_clusters.filtered,
             runs |-> semantic_clusters.runs]
    IN  IF anchors = <<>>
        THEN [raised |-> FALSE, results |-> {}, files |-> files,
              encoded |-> <<>>, filtered |-> <<>>, runs |-> 0]
        ELSE results(cluster_semantic_themes(files, dir, m, anchors, 2,
                                             first, second))

----------------------------------------------------------------------------
(* Operations *)

NoCall == [fn |-> "none", args |-> <<>>, result |-> <<>>]

\* load_csv_file reads one more row of the file
LoadRow(r) ==
    /\ Len(rows) < MaxRows
    /\ rows' = Append(rows, r)
    /\ UNCHANGED <<config, fieldnames, audit, call, analyzer_vars, crawl,
                   workflow>>

\* analyze_csv(csv_path) on the rows of the file.  With the analyzer imported
\* the editorial links go through analyze_semantic_advanced, whose result is
\* added to the analysis; an exception of that stage reaches the except
\* clause of analyze_csv, which returns None
AnalyzeCsv ==
    \E report \in {analyze_csv(config, fieldnames, rows)} :
       /\ IF model = "not imported" \/ report.returned # "report"
          THEN audit' = report /\ UNCHANGED <<cache, encode_calls>>
          ELSE \E editorial_links \in {EditorialLinks(report.internal_links)} :
                 LET stage(first, second) ==
                         analyze_semantic_advanced(
                             cache, directory, model, editorial_links,
                             identify_columns(fieldnames).anchor,
                             first, second)
                 IN  \E reached \in {stage(<<>>, <<>>)} :
                       \E first \in IF reached.runs = 0 THEN {<<>>}
                                    ELSE Labellings(reached.filtered) :
                         \E second \in IF stage(first, first).runs = 2
                                        THEN Labellings(reached.filtered)
                                        ELSE {first} :
                           \E semantic \in {stage(first, second)} :
                              /\ encode_calls + Len(semantic.encoded)
                                    <= MaxEncodeCalls
                              /\ audit' =
                                    IF semantic.raised THEN ReturnedNone
                                    ELSE [f \in DOMAIN report
                                                 \cup {"advanced_semantic"} |->
                                             IF f = "advanced_semantic"
                                             THEN semantic.results
                                             ELSE report[f]]
                              /\ cache' = semantic.files
                              /\ encode_calls' =
                                    encode_calls + Len(semantic.encoded)
       /\ UNCHANGED <<config, fieldnames, rows, call, directory, model,
                      processes, crawl, workflow>>

\* is_mechanical_link(row) on the single row
Classify ==
    /\ call = NoCall
    /\ Len(rows) = 1
    /\ call' = [fn |-> "is_mechanical_link",
                args |-> <<>>,
                result |->
                   <<[raised |-> Raises(config, fieldnames, rows[1]),
                      returned |->
                         IF Raises(config, fieldnames, rows[1]) THEN {}
                         ELSE {is_mechanical_link(config, fieldnames, rows[1])},
                      return_point |->
                         ReturnPoint(config, ClassifierColumns(fieldnames),
                                     rows[1])]>>]
    /\ UNCHANGED <<config, fieldnames, rows, audit, analyzer_vars, crawl,
                   workflow>>

\* calculate_editorial_score on the pending arguments
ApplyScore ==
    /\ call.fn = "calculate_editorial_score"
    /\ call.result = <<>>
    /\ call' = [call EXCEPT
                  !.result =
                     <<[score |->
                           calculate_editorial_score(
                               call.args.lens, call.args.total_editorial,
                               call.args.editorial_ratio,
                               call.args.total_internal_links),
                        base_score |-> BaseScore(call.args.editorial_ratio),
                        volume_penalty |->
                           VolumePenalty(call.args.total_editorial)]>>]
    /\ UNCHANGED <<config, fieldnames, rows, audit, analyzer_vars, crawl,
                   workflow>>

\* what an operation of the analyzer leaves: the directory, the count of
\* model calls, and in call the arguments and the result, with the directory
\* as the operation found it in place of the one it left
Returns(fn, args, r) ==
    /\ model # "not imported"
    /\ encode_calls + Len(r.encoded) <= MaxEncodeCalls
    /\ cache' = r.files
    /\ encode_calls' = encode_calls + Len(r.encoded)
    /\ call' = [fn |-> fn, args |-> args,
                result |-> <<[f \in (DOMAIN r \ {"files"}) \cup {"found"} |->
                                 IF f = "found" THEN cache ELSE r[f]]>>]
    /\ UNCHANGED <<config, fieldnames, rows, audit, directory, model,
                   processes, crawl, workflow>>

\* encode_with_cache(texts)
EncodeWithCache(texts) ==
    Returns("encode_with_cache", texts,
            encode_with_cache(cache, directory, model, texts))

\* clear_cache()
ClearCache == Returns("clear_cache", <<>>, clear_cache(cache, directory))

\* analyze_semantic_coherence(anchors, page_contents)
AnalyzeSemanticCoherence(anchors, page_contents, s) ==
    Returns("analyze_semantic_coherence",
            [anchors |-> anchors, page_contents |-> page_contents, s |-> s],
            analyze_semantic_coherence(cache, directory, model, anchors,
                                       page_contents, s))

\* cluster_semantic_themes(anchor_texts, min_cluster_size); DBSCAN labels the
\* rows when the call reaches it, a second time when the call runs it again
ClusterSemanticThemes(anchor_texts, min_cluster_size) ==
    LET themes(first, second) ==
            cluster_semantic_themes(cache, directory, model, anchor_texts,
                                    min_cluster_size, first, second)
        reached == themes(<<>>, <<>>)
    IN  \E first \in IF reached.runs = 0 THEN {<<>>}
                     ELSE Labellings(reached.filtered) :
          \E second \in IF themes(first, first).runs = 2
                         THEN Labellings(reached.filtered) ELSE {first} :
             Returns("cluster_semantic_themes",
                     [anchor_texts |-> anchor_texts,
                      min_cluster_size |-> min_cluster_size],
                     themes(first, second))

\* find_semantic_gaps(page_contents, threshold) on a dictionary of one URL
\* per content
FindSemanticGaps(contents, threshold, s) ==
    LET page_contents ==
            [i \in 1..Len(contents) |->
                [url |-> <<"h","t","t","p","s",":","/","/","s",".","f","r","/","p">> \o Str(i),
                 content |-> contents[i]]]
    IN  Returns("find_semantic_gaps",
                [page_contents |-> page_contents, threshold |-> threshold,
                 s |-> s],
                find_semantic_gaps(cache, directory, model, page_contents,
                                   threshold, s))

\* one step of _get_cached_embedding(text) in the run p: os.path.exists, then
\* open and pickle.load, then, when these raised, os.remove.  A file that a
\* writer has opened and not yet dumped is empty, and pickle.load raises on
\* it as on any truncated file; os.remove unlinks the file under the writers
\* that hold it open, and raises when the file is no longer there
GetCachedEmbeddingStep(p, text) ==
    LET cache_key == _get_cache_key(text)
        process == processes[p]
        exists == cache_key \in DOMAIN cache
        None == [vector |-> "None", of |-> <<>>]
    IN  /\ \/ /\ process.pc = "idle"
              /\ processes' =
                    [processes EXCEPT ![p] =
                        IF exists THEN [process EXCEPT !.pc = "exists"]
                        ELSE [process EXCEPT !.returned = <<None>>]]
              /\ cache' = cache
           \/ /\ process.pc = "exists"
              /\ processes' =
                    [processes EXCEPT ![p] =
                        IF exists /\ cache[cache_key].kind = "pickle"
                        THEN [process EXCEPT
                                 !.pc = "idle",
                                 !.returned = <<cache[cache_key].vector>>]
                        ELSE [process EXCEPT !.pc = "except"]]
              /\ cache' = cache
           \/ /\ process.pc = "except"
              /\ processes' =
                    [q \in DOMAIN processes |->
                        IF q = p
                        THEN IF exists
                             THEN [process EXCEPT !.pc = "idle",
                                                  !.returned = <<None>>]
                             ELSE [process EXCEPT !.pc = "raised"]
                        ELSE IF processes[q].pc = "opened"
                        THEN [processes[q] EXCEPT !.linked = FALSE]
                        ELSE processes[q]]
              /\ cache' = [k \in DOMAIN cache \ {cache_key} |-> cache[k]]
        /\ UNCHANGED <<config, fieldnames, rows, audit, call, directory,
                       model, encode_calls, crawl, workflow>>

\* one step of _cache_embedding(text, embedding) in the run p: open(.., 'wb')
\* creates the file or empties it, then pickle.dump and the close write the
\* vector to the file the run holds open, be it still in the directory or not
CacheEmbeddingStep(p, text) ==
    LET cache_key == _get_cache_key(text)
        process == processes[p]
        holding(content) ==
            [k \in DOMAIN cache \cup {cache_key} |->
                IF k = cache_key THEN content ELSE cache[k]]
    IN  /\ \/ /\ process.pc = "idle"
              /\ processes' = [processes EXCEPT ![p].pc = "opened",
                                                ![p].linked = TRUE]
              /\ cache' = holding(Corrupt)
           \/ /\ process.pc = "opened"
              /\ processes' = [processes EXCEPT ![p].pc = "idle",
                                                ![p].wrote = TRUE]
              /\ cache' = IF process.linked
                          THEN holding(Pickled(Embedding(text)))
                          ELSE cache
        /\ UNCHANGED <<config, fieldnames, rows, audit, call, directory,
                       model, encode_calls, crawl, workflow>>

----------------------------------------------------------------------------
(* Specifications *)

\* the audit without ext_analyseur_semantique: no analyzer, no cache
NoAnalyzer ==
    /\ cache = <<>>
    /\ directory = "writable"
    /\ model = "not imported"
    /\ encode_calls = 0
    /\ processes = <<>>

\* the audit of a CSV file under a configuration file
Init ==
    /\ config \in Configs
    /\ fieldnames = TestHeader
    /\ rows = <<>>
    /\ audit = NoAudit
    /\ crawl = <<>>
    /\ workflow = <<>>
    /\ call = NoCall
    /\ NoAnalyzer

Next == (\E r \in InputRows : LoadRow(r)) \/ AnalyzeCsv

Spec == Init /\ [][Next]_vars

\* is_mechanical_link applied to every row of the input vocabulary
InitClassify ==
    /\ config \in Configs
    /\ fieldnames \in {TestHeader, ExtendedHeader}
    /\ rows \in {<<r>> : r \in ClassifierRows(fieldnames)}
    /\ audit = NoAudit
    /\ crawl = <<>>
    /\ workflow = <<>>
    /\ call = NoCall
    /\ NoAnalyzer

NextClassify == Classify

SpecClassify == InitClassify /\ [][NextClassify]_vars

\* calculate_editorial_score applied to every combination of arguments
InitScore ==
    /\ config = DefaultConfig
    /\ fieldnames = TestHeader
    /\ rows = <<>>
    /\ audit = NoAudit
    /\ crawl = <<>>
    /\ workflow = <<>>
    /\ \E total \in ScoreTotals, internal \in ScoreInternalTotals :
         \E ts \in ScoreCounts(total), tl \in ScoreCounts(total),
            gq \in ScoreCounts(total), ks \in ScoreCounts(total),
            ua \in ScoreCounts(total) :
             /\ total <= internal
             /\ ts + tl + gq <= total
             /\ call = [fn |-> "calculate_editorial_score",
                        args |-> [lens |-> [too_short |-> ts, too_long |-> tl,
                                            good_quality |-> gq,
                                            keyword_stuffed |-> ks,
                                            url_anchors |-> ua],
                                  total_editorial |-> total,
                                  editorial_ratio |->
                                      Fraction(total * 100, internal),
                                  total_internal_links |-> internal],
                        result |-> <<>>]
    /\ NoAnalyzer

NextScore == ApplyScore

SpecScore == InitScore /\ [][NextScore]_vars

\* encode_with_cache and clear_cache on a cache directory holding readable
\* and corrupt files
InitCache ==
    /\ config = DefaultConfig
    /\ fieldnames = TestHeader
    /\ rows = <<>>
    /\ audit = NoAudit
    /\ crawl = <<>>
    /\ workflow = <<>>
    /\ call = NoCall
    /\ cache \in InitialCaches
    /\ directory \in {"writable", "read-only"}
    /\ model \in {"loaded", "unavailable"}
    /\ encode_calls = 0
    /\ processes = <<>>

NextCache == (\E texts \in TextLists : EncodeWithCache(texts)) \/ ClearCache

SpecCache == InitCache /\ [][NextCache]_vars

\* one operation of the analyzer on an empty directory, or on a read-only
\* directory that holds a corrupt file for 'guide seo'; thresholds 0.7 (the default) and 0.6 (the
\* one analyze_semantic_advanced passes), cosines 0.60 and 0.65 between the
\* rows of two different texts
InitSemantic ==
    /\ config = DefaultConfig
    /\ fieldnames = TestHeader
    /\ rows = <<>>
    /\ audit = NoAudit
    /\ crawl = <<>>
    /\ workflow = <<>>
    /\ call = NoCall
    /\ \/ cache = <<>> /\ directory = "writable"
       \/ /\ cache = [k \in {_get_cache_key(<<"g","u","i","d","e"," ","s","e","o">>)} |-> Corrupt]
          /\ directory = "read-only"
    /\ model \in {"loaded", "unavailable"}
    /\ encode_calls = 0
    /\ processes = <<>>

NextSemantic ==
    /\ call.fn = "none"
    /\ \/ \E texts \in TextLists : EncodeWithCache(texts)
       \/ \E anchors \in TextLists, n \in 0..MaxTexts, s \in {60, 65} :
             \E page_contents \in [1..n -> {<<"s","e","o">>, <<"g","u","i","d","e"," ","s","e","o">>}] :
                AnalyzeSemanticCoherence(anchors, page_contents, s)
       \/ \E anchor_texts \in AnchorLists, min_cluster_size \in {2, 3} :
             ClusterSemanticThemes(anchor_texts, min_cluster_size)
       \/ \E n \in 0..MaxPages, threshold \in {70, 60}, s \in {60, 65} :
             \E contents \in [1..n -> {<<"s","e","o">>, <<"g","u","i","d","e"," ","s","e","o">>}] :
                FindSemanticGaps(contents, threshold, s)

SpecSemantic == InitSemantic /\ [][NextSemantic]_vars

\* the audit of a CSV file with the analyzer imported, on an empty cache
\* directory or on a read-only one that holds a corrupt file for 'guide seo'
InitPipeline ==
    /\ config = DefaultConfig
    /\ fieldnames = TestHeader
    /\ rows = <<>>
    /\ audit = NoAudit
    /\ crawl = <<>>
    /\ workflow = <<>>
    /\ call = NoCall
    /\ \/ cache = <<>> /\ directory = "writable"
       \/ /\ cache = [k \in {_get_cache_key(<<"g","u","i","d","e"," ","s","e","o">>)} |-> Corrupt]
          /\ directory = "read-only"
    /\ model \in {"loaded", "unavailable"}
    /\ encode_calls = 0
    /\ processes = <<>>

SpecPipeline == InitPipeline /\ [][Next]_vars

\* the audit of an export whose destination column is named 'Destination'
\* or 'Target' and whose first row may hold an anchor that repeats its
\* words, in six words or in nine
InitExports ==
    /\ config = DefaultConfig
    /\ fieldnames \in {TestHeader, TargetHeader}
    /\ rows \in {<<>>}
                \cup {<<TestRow(PageA, PageB, anchor, <<"C","o","n","t","e","n","u">>)>> :
                        anchor \in {<<"c","l","i","q","u","e","z"," ","i","c","i"," ","c","l","i","q","u","e","z"," ","i","c","i"," ","c","l","i","q","u","e","z"," ","i","c","i">>,
                                    <<"G","u","i","d","e"," ","g","u","i","d","e"," ","G","U","I","D","E">>,
                                    <<"s","e","o"," ","s","e","o"," ","s","e","o">>,
                                    <<"g","u","i","d","e"," ","a"," ","g","u","i","d","e"," ","b"," ","g","u","i","d","e"," ","c"," ","g","u","i","d","e"," ","d"," ","g","u","i","d","e">>}}
    /\ audit = NoAudit
    /\ crawl = <<>>
    /\ workflow = <<>>
    /\ call = NoCall
    /\ NoAnalyzer

SpecExports == InitExports /\ [][Next]_vars

\* MaxProcesses runs of the analysis on one writable directory, each reading
\* and writing the entry of one text
InitConcurrent ==
    /\ config = DefaultConfig
    /\ fieldnames = TestHeader
    /\ rows = <<>>
    /\ audit = NoAudit
    /\ crawl = <<>>
    /\ workflow = <<>>
    /\ call = NoCall
    /\ cache \in {<<>>, [k \in {_get_cache_key(<<"s","e","o">>)} |->
                              Pickled(Embedding(<<"s","e","o">>))]}
    /\ directory = "writable"
    /\ model = "loaded"
    /\ encode_calls = 0
    /\ processes = [p \in 1..MaxProcesses |->
                       [pc |-> "idle", linked |-> FALSE, wrote |-> FALSE,
                        returned |-> <<>>]]

NextConcurrent ==
    \E p \in DOMAIN processes :
       \/ GetCachedEmbeddingStep(p, <<"s","e","o">>)
       \/ CacheEmbeddingStep(p, <<"s","e","o">>)

SpecConcurrent == InitConcurrent /\ [][NextConcurrent]_vars

----------------------------------------------------------------------------
(* run_new_crawl: the retry loop around the crawler *)

\* what the diagnosis looks for in the lower-cased output of the crawler.
\* An output is the set of the tests it passes: "403" stands for '403' or
\* 'forbidden' in the text, "memory" for 'memory' or 'heap', and so on
LogTests ==
    {"403", "404", "timeout", "license", "memory", "rate limit", "blocked"}

\* a diagnosis that takes the outputs with '404' for connection problems
FailureClassNotFoundAsTimeout(output_text) ==
    IF "403" \in output_text THEN "403"
    ELSE IF "404" \in output_text \/ "timeout" \in output_text THEN "timeout"
    ELSE IF "license" \in output_text THEN "license"
    ELSE IF "memory" \in output_text THEN "memory"
    ELSE IF "rate limit" \in output_text THEN "rate limit"
    ELSE IF "blocked" \in output_text THEN "blocked"
    ELSE "none"

\* the if/elif chain over output_text: the first test that passes
FailureClass(output_text) ==
    IF "403" \in output_text THEN "403"
    ELSE IF "404" \in output_text THEN "404"
    ELSE IF "timeout" \in output_text THEN "timeout"
    ELSE IF "license" \in output_text THEN "license"
    ELSE IF "memory" \in output_text THEN "memory"
    ELSE IF "rate limit" \in output_text THEN "rate limit"
    ELSE IF "blocked" \in output_text THEN "blocked"
    ELSE "none"

\* one step of run_new_crawl(website_url, max_attempts): the test of
\* sf_path, one iteration of the for loop, or the return after the loop.
\* crawl.created holds the attempts whose temporary configuration file was
\* created, crawl.files those whose file is still there, crawl.launches
\* counts the subprocess.Popen calls, crawl.last is what the last iteration
\* met.  create_screaming_frog_config creates the file, then returns its
\* name, or None when the dump raised
RunNewCrawlStep ==
    LET attempt == crawl.attempt
        with_file == [crawl EXCEPT !.created = @ \cup {attempt},
                                   !.files = @ \cup {attempt}]
        unlinked(c) == [c EXCEPT !.files = @ \ {attempt}]
        met(c, event, output_text, launched) ==
            [c EXCEPT !.last = [event |-> event, output_text |-> output_text,
                                attempt |-> attempt],
                      !.launches = IF launched THEN @ + 1 ELSE @]
        returns(c, value) == [c EXCEPT !.pc = "returned", !.returned = value]
        continues(c) == [c EXCEPT !.attempt = @ + 1]
        retries(c) == IF attempt < crawl.max_attempts THEN continues(c)
                      ELSE returns(c, "None")
    IN  /\ crawl # <<>>
        /\ \/ /\ crawl.pc = "start"
              /\ \E exists \in BOOLEAN :
                    crawl' = IF exists THEN [crawl EXCEPT !.pc = "loop"]
                             ELSE returns(crawl, "None")
           \/ /\ crawl.pc = "loop"
              /\ attempt > crawl.max_attempts
              /\ crawl' = returns(crawl, "None")
           \/ /\ crawl.pc = "loop"
              /\ attempt <= crawl.max_attempts
              /\ \/ crawl' = continues(met(with_file, "no config", {},
                                           FALSE))
                 \/ crawl' = returns(unlinked(met(with_file,
                                                  "FileNotFoundError", {},
                                                  TRUE)), "None")
                 \/ \E event \in {"TimeoutExpired", "Exception"} :
                       crawl' = retries(unlinked(met(with_file, event, {},
                                                     TRUE)))
                 \/ \E csv_files \in BOOLEAN :
                       crawl' = returns(unlinked(met(with_file, "exit 0", {},
                                                     TRUE)),
                                        IF csv_files THEN "csv" ELSE "None")
                 \/ \E output_text \in SUBSET LogTests, csv_files \in BOOLEAN :
                       LET failed == met(with_file, "exit 1", output_text,
                                         TRUE)
                           diagnosis == FailureClass(output_text)
                       IN  /\ Cardinality(output_text) <= 2
                           /\ crawl' =
                                 IF diagnosis \in {"404", "license", "memory"}
                                 THEN returns(failed, "None")
                                 ELSE IF diagnosis # "none"
                                         /\ attempt < crawl.max_attempts
                                 THEN continues(unlinked(failed))
                                 ELSE IF csv_files
                                 THEN returns(failed, "partial csv")
                                 ELSE returns(unlinked(failed), "None")
        /\ UNCHANGED <<config, fieldnames, rows, audit, call, analyzer_vars,
                       workflow>>

\* a call of run_new_crawl with max_attempts up to MaxAttempts
InitCrawl ==
    /\ config = DefaultConfig
    /\ fieldnames = TestHeader
    /\ rows = <<>>
    /\ audit = NoAudit
    /\ call = NoCall
    /\ NoAnalyzer
    /\ \E max_attempts \in 0..MaxAttempts :
          crawl = [pc |-> "start", max_attempts |-> max_attempts,
                   attempt |-> 1, launches |-> 0, created |-> {},
                   files |-> {}, last |-> <<>>, returned |-> "not returned"]
    /\ workflow = <<>>

\* the interpreter goes on to the next statement, and every crawler that
\* is launched exits
SpecCrawl ==
    InitCrawl /\ [][RunNewCrawlStep]_vars /\ WF_vars(RunNewCrawlStep)

\* ---- run_complete_workflow (01_workflow_audit_ia_complet.py) ----
\* The exports directory is a function from the three file names the workflow
\* looks at to the state of the file: "absent"; "small", at most 1000 bytes;
\* "old", more than 1000 bytes and modified at least 30 days ago; "recent",
\* more than 1000 bytes and modified less than 30 days ago.

\* the bound on the number of links read from the crawler's export
MaxLinks == 2

\* check_screaming_frog_data looking at the first of the two exports only
check_screaming_frog_data_first_file(files) ==
    files["tous_les_liens_sortants.csv"] = "recent"

\* check_screaming_frog_data: one of the two exports of outgoing links exists,
\* is larger than 1000 bytes and is less than 30 days old
check_screaming_frog_data(files) ==
    \E file_path \in {"tous_les_liens_sortants.csv", "all_outlinks.csv"} :
        files[file_path] = "recent"

\* One step of run_complete_workflow: step 1 (structure analysis, whose
\* failure only selects default XPaths), step 2 (check of the exports, and
\* run_screaming_frog_crawl when there is no recent data), step 3
\* (intelligent_post_processing and generate_intelligent_report) and step 4
\* (launch_semantic_analysis, whose result is only printed).
WorkflowStep ==
    LET files == workflow.files
        outlinks == {"tous_les_liens_sortants.csv", "all_outlinks.csv"}
        returns(w, value) == [w EXCEPT !.pc = "returned", !.returned = value]
        \* cleanup_old_files(preserve_sf_data=False): a removal that raises is
        \* reported and the file stays
        cleaned(kept) ==
            [f \in DOMAIN files |->
                IF f \in outlinks \ kept THEN "absent" ELSE files[f]]
        \* the exports directory after the crawler ran
        crawled(before, written, size) ==
            [f \in DOMAIN files |->
                IF f \notin written THEN before[f]
                ELSE IF f = "all_outlinks.csv" THEN size ELSE "recent"]
        \* run_screaming_frog_crawl: exit code 0 and one expected file exists
        sf_success(event, after) ==
            /\ event = "exit 0"
            /\ \E f \in {"all_outlinks.csv", "page_titles.csv"} :
                    after[f] # "absent"
        \* generate_intelligent_report: the ratio printed after the file is
        \* written divides by total_links, and every exception returns ""
        report_path(read, total_links, written) ==
            IF ~read \/ ~written \/ total_links = 0
            THEN ""
            ELSE "./exports/editorial_links_intelligent.csv"
        processed(read, total_links, filtered_report) ==
            [workflow EXCEPT !.post_started = TRUE,
                             !.read = read,
                             !.total_links = IF read THEN total_links ELSE -1,
                             !.filtered_report = filtered_report]
    IN  /\ workflow # <<>>
        /\ \/ /\ workflow.pc = "step1"
              /\ \E success \in BOOLEAN :
                    workflow' = [workflow EXCEPT !.pc = "step2",
                                                 !.structure_success = success]
           \/ /\ workflow.pc = "step2"
              /\ workflow' =
                    [workflow EXCEPT
                        !.checked = files,
                        !.pc = IF check_screaming_frog_data(files)
                               THEN "step3" ELSE "crawl",
                        !.crawl_started = ~check_screaming_frog_data(files)]
           \/ /\ workflow.pc = "crawl"
              /\ \E kept \in SUBSET outlinks,
                    event \in {"exit 0", "exit 1", "TimeoutExpired", "Exception"},
                    written \in SUBSET {"all_outlinks.csv", "page_titles.csv"},
                    size \in {"small", "recent"} :
                    \E after \in {crawled(cleaned(kept), written, size)} :
                        workflow' =
                            IF sf_success(event, after)
                            THEN [workflow EXCEPT !.pc = "step3",
                                                  !.files = after,
                                                  !.sf_success = "True"]
                            ELSE returns([workflow EXCEPT !.files = after,
                                                          !.sf_success = "False"], "")
           \/ /\ workflow.pc = "step3"
              /\ \A f \in outlinks : files[f] = "absent"
              /\ workflow' = returns(processed(FALSE, 0, ""), "")
           \/ /\ workflow.pc = "step3"
              /\ \E f \in outlinks : files[f] # "absent"
              /\ \E read \in BOOLEAN, total_links \in 0..MaxLinks,
                    written \in BOOLEAN :
                    \E filtered_report \in {report_path(read, total_links, written)} :
                        workflow' =
                            IF filtered_report = ""
                            THEN returns(processed(read, total_links, ""), "")
                            ELSE [processed(read, total_links, filtered_report)
                                    EXCEPT !.pc = "step4"]
           \/ /\ workflow.pc = "step4"
              /\ \E semantic_success \in BOOLEAN :
                    workflow' =
                        returns([workflow EXCEPT
                                    !.semantic_started = TRUE,
                                    !.semantic_success = semantic_success],
                                workflow.filtered_report)
        /\ UNCHANGED <<config, fieldnames, rows, audit, call, analyzer_vars, crawl>>

\* a call of run_complete_workflow with the exports directory in any state
InitWorkflow ==
    /\ config = DefaultConfig
    /\ fieldnames = TestHeader
    /\ rows = <<>>
    /\ audit = NoAudit
    /\ call = NoCall
    /\ NoAnalyzer
    /\ crawl = <<>>
    /\ \E tous \in {"absent", "small", "old", "recent"},
          all \in {"absent", "small", "old", "recent"},
          titles \in {"absent", "recent"} :
          workflow = [pc |-> "step1",
                      files |-> [f \in {"tous_les_liens_sortants.csv",
                                        "all_outlinks.csv", "page_titles.csv"} |->
                                    IF f = "tous_les_liens_sortants.csv" THEN tous
                                    ELSE IF f = "all_outlinks.csv" THEN all
                                    ELSE titles],
                      structure_success |-> FALSE,
                      checked |-> <<>>,
                      crawl_started |-> FALSE,
                      sf_success |-> "not run",
                      post_started |-> FALSE,
                      read |-> FALSE,
                      total_links |-> -1,
                      filtered_report |-> "",
                      semantic_started |-> FALSE,
                      semantic_success |-> FALSE,
                      returned |-> "not returned"]

SpecWorkflow ==
    InitWorkflow /\ [][WorkflowStep]_vars

----------------------------------------------------------------------------
(* Properties of the link graph analysis *)

\* the audit returned a report
Analysed == audit.returned = "report"

SourceOf(link) == link.cells[identify_columns(fieldnames).source]

DestinationOf(link) == link.cells[identify_columns(fieldnames).dest]

\* a record that is not flagged mechanical
Editorial(link) == link.is_mechanical # {TRUE}

\* the internal records of the audit that are editorial and end at page p
EditorialInbound(p) ==
    {i \in 1..Len(audit.internal_links) :
        /\ Editorial(audit.internal_links[i])
        /\ DestinationOf(audit.internal_links[i]) = p}

\* the internal records of the audit that are mechanical and end at page p
MechanicalInbound(p) ==
    {i \in 1..Len(audit.internal_links) :
        /\ ~Editorial(audit.internal_links[i])
        /\ DestinationOf(audit.internal_links[i]) = p}

\* the internal records of the audit that start at page p
Outbound(p) ==
    {i \in 1..Len(audit.internal_links) :
        SourceOf(audit.internal_links[i]) = p}

\* every URL of the internal records of the audit
KnownUrls ==
    {SourceOf(audit.internal_links[i]) : i \in 1..Len(audit.internal_links)}
    \cup
    {DestinationOf(audit.internal_links[i]) : i \in 1..Len(audit.internal_links)}

\* the last internal record of the audit
LastLink == audit.internal_links[Len(audit.internal_links)]

\* C1, first half: every page in orphan_pages has no editorial internal
\* record whose destination is that page.
OrphanHasNoEditorialInbound ==
    Analysed =>
        \A p \in audit.analysis.orphan_pages : EditorialInbound(p) = {}

\* C1, second half: when the analysis is run again after one more editorial
\* internal record with destination P was added to the records, P is not in
\* orphan_pages.
AddedEditorialLinkClearsOrphan ==
    (/\ Analysed
     /\ Analysed'
     /\ Len(audit'.internal_links) = Len(audit.internal_links) + 1
     /\ SubSeq(audit'.internal_links, 1, Len(audit.internal_links))
            = audit.internal_links
     /\ Editorial(LastLink'))
    => DestinationOf(LastLink') \notin audit'.analysis.orphan_pages

\* C1: orphan invariant under graph mutation: a page in orphan_pages has no
\* editorial inbound record, and a page that is given one more editorial
\* inbound record is not in orphan_pages when the analysis is run again.
C1_OrphanInvariant ==
    []OrphanHasNoEditorialInbound /\ [][AddedEditorialLinkClearsOrphan]_vars

\* C1 happens: the audit reports an orphan page that receives a mechanical
\* record, and its last record is the only editorial record into a page that
\* would be an orphan without it.
C1_Witness ==
    /\ Analysed
    /\ Len(audit.internal_links) >= 2
    /\ \E p \in audit.analysis.orphan_pages : MechanicalInbound(p) # {}
    /\ Editorial(LastLink)
    /\ DestinationOf(LastLink) \in audit.analysis.all_pages
    /\ EditorialInbound(DestinationOf(LastLink)) = {Len(audit.internal_links)}
    /\ DestinationOf(LastLink) \notin audit.analysis.orphan_pages

\* the records of the audit as (source, destination, mechanical) triples
Triples ==
    {<<SourceOf(audit.internal_links[i]), DestinationOf(audit.internal_links[i]),
       ~Editorial(audit.internal_links[i])>> :
        i \in 1..Len(audit.internal_links)}

\* the records A->B editorial, A->C mechanical, B->A mechanical
ExampleGraph ==
    /\ Len(audit.internal_links) = 3
    /\ Triples = {<<PageA, PageB, FALSE>>, <<PageA, PageC, TRUE>>,
                  <<PageB, PageA, TRUE>>}

\* C2: orphan_pages is the set of sources of all the internal records minus
\* the set of destinations of the editorial records only, so a source that
\* receives only mechanical records is an orphan; for A->B editorial,
\* A->C mechanical, B->A mechanical: all_pages = {A, B}, linked_pages = {B},
\* orphan_pages = {A}.
C2_OrphanPagesAreSourcesMinusEditorialDestinations ==
    Analysed =>
        /\ audit.analysis.all_pages = {p \in KnownUrls : Outbound(p) # {}}
        /\ audit.analysis.linked_pages
               = {p \in KnownUrls : EditorialInbound(p) # {}}
        /\ audit.analysis.orphan_pages
               = {p \in KnownUrls : Outbound(p) # {} /\ EditorialInbound(p) = {}}
        /\ \A p \in KnownUrls :
               (Outbound(p) # {} /\ MechanicalInbound(p) # {}
                /\ EditorialInbound(p) = {})
               => p \in audit.analysis.orphan_pages
        /\ ExampleGraph =>
               /\ audit.analysis.all_pages = {PageA, PageB}
               /\ audit.analysis.linked_pages = {PageB}
               /\ audit.analysis.orphan_pages = {PageA}

\* C2 happens: the audit of the three records of the example
C2_Witness ==
    /\ Analysed
    /\ ExampleGraph
    /\ audit.analysis.orphan_pages = {PageA}
    /\ MechanicalInbound(PageA) # {}

\* C3 as stated: every URL with no editorial inbound record and at least one
\* outbound record or one mechanical inbound record is in orphan_pages, also
\* a URL that is only the destination of mechanical records.
C3_AsStated ==
    Analysed =>
        \A p \in KnownUrls :
            (EditorialInbound(p) = {}
             /\ (Outbound(p) # {} \/ MechanicalInbound(p) # {}))
            => p \in audit.analysis.orphan_pages

\* C3 amended: every URL with no editorial inbound record and at least one
\* outbound internal record is in orphan_pages, and a URL that is never the
\* source of an internal record is not in orphan_pages, whatever it receives.
C3_OrphansAreSourcesWithoutEditorialInbound ==
    Analysed =>
        \A p \in KnownUrls :
            /\ (EditorialInbound(p) = {} /\ Outbound(p) # {})
                   => p \in audit.analysis.orphan_pages
            /\ Outbound(p) = {} => p \notin audit.analysis.orphan_pages

\* C3 happens: a URL that only receives mechanical records is left out of
\* orphan_pages while a source without editorial inbound records is in it
C3_Witness ==
    /\ Analysed
    /\ \E p \in KnownUrls :
           /\ Outbound(p) = {}
           /\ EditorialInbound(p) = {}
           /\ MechanicalInbound(p) # {}
           /\ p \notin audit.analysis.orphan_pages
    /\ \E q \in audit.analysis.orphan_pages :
           Outbound(q) # {} /\ EditorialInbound(q) = {}

\* the editorial records of the audit that are not self-links, by the page
\* at one end
EditorialFrom(p) ==
    {i \in 1..Len(audit.internal_links) :
        /\ Editorial(audit.internal_links[i])
        /\ SourceOf(audit.internal_links[i]) = p
        /\ DestinationOf(audit.internal_links[i]) # p}

EditorialInto(p) ==
    {i \in EditorialInbound(p) : SourceOf(audit.internal_links[i]) # p}

\* counter[key] of a collections.Counter
CountOf(counter, key) == IF key \in DOMAIN counter THEN counter[key] ELSE 0

\* C4: editorial self-links are left out of the counter of outbound records
\* per source, of the counter of inbound records per destination and of
\* linked_pages: a page whose only editorial inbound record is its own
\* self-link is an orphan, and the self-link adds nothing to the counters.
C4_SelfLinksExcluded ==
    Analysed =>
        \A p \in KnownUrls :
            /\ CountOf(audit.analysis.source_counter, p)
                   = Cardinality(EditorialFrom(p))
            /\ CountOf(audit.analysis.dest_counter, p)
                   = Cardinality(EditorialInto(p))
            /\ (Outbound(p) # {} /\ EditorialInto(p) = {})
                   => p \in audit.analysis.orphan_pages

----------------------------------------------------------------------------
(* Properties of the editorial score *)

\* calculate_editorial_score has returned
Scored == call.fn = "calculate_editorial_score" /\ call.result # <<>>

\* C5: calculate_editorial_score returns a value between 0 and 100 (0 and
\* 1000 tenths) for every combination of bucket counts, editorial total and
\* editorial ratio, and returns 0 whenever total_editorial is 0.
C5_ScoreBounded ==
    Scored =>
        /\ 0 <= call.result[1].score
        /\ call.result[1].score <= 1000
        /\ call.args.total_editorial = 0 => call.result[1].score = 0

\* C5 happens: a call whose penalties exceed the base score and the bonus has
\* returned the lower bound
C5_Witness ==
    /\ Scored
    /\ call.args.total_editorial > 0
    /\ FinalScoreScaled(call.args.lens, call.args.total_editorial,
                        call.args.editorial_ratio) < 0
    /\ call.result[1].score = 0

\* the volume penalty as the claim states it
StatedVolumePenalty(total_editorial) ==
    IF total_editorial < 20 THEN 20
    ELSE IF total_editorial < 50 THEN 10
    ELSE 0

\* no anchor is in any bucket
NoBucket(lens) ==
    /\ lens.too_short = 0
    /\ lens.too_long = 0
    /\ lens.good_quality = 0
    /\ lens.keyword_stuffed = 0
    /\ lens.url_anchors = 0

\* C6: the volume penalty subtracted by calculate_editorial_score is 20 when
\* total_editorial < 20, 10 when 20 <= total_editorial < 50 and 0 when
\* total_editorial >= 50; with empty buckets the score is the base score
\* minus that penalty, and not less than 0.
C6_VolumePenalty ==
    (Scored /\ call.args.total_editorial > 0) =>
        /\ call.result[1].volume_penalty
               = StatedVolumePenalty(call.args.total_editorial)
        /\ NoBucket(call.args.lens) =>
               call.result[1].score
                   = 10 * IntMax(0, call.result[1].base_score
                                    - StatedVolumePenalty(call.args.total_editorial))

----------------------------------------------------------------------------
(* Properties of the classifier *)

\* is_mechanical_link has ended on the single row
Classified == call.fn = "is_mechanical_link" /\ call.result # <<>>

\* the values is_mechanical_link reads in the row
AnchorRead == Strip(Lower(Cell(rows[1], ClassifierColumns(fieldnames).anchor)))

OriginRead == Lower(Cell(rows[1], ClassifierColumns(fieldnames).origin))

XPathRead == Lower(Cell(rows[1], ClassifierColumns(fieldnames).xpath))

LinkTypeRead == Lower(Cell(rows[1], ClassifierColumns(fieldnames).link_type))

\* some anchor pattern in use, one that compiles, is found in the anchor
AnchorPatternMatches ==
    \E i \in 1..Len(PatternsToUse(config)) :
        /\ PatternsToUse(config)[i].kind # "malformed"
        /\ ReSearch(PatternsToUse(config)[i], AnchorRead)

\* the rules that match the row, by their number in the decision order
MatchingRules ==
    {k \in 1..7 :
        \/ k = 1 /\ Rule1_Origin(OriginRead)
        \/ k = 2 /\ Rule2_LinkType(LinkTypeRead)
        \/ k = 3 /\ AnchorPatternMatches
        \/ k = 4 /\ Rule4_XPath(XPathRead)
        \/ k = 5 /\ Rule5_Selector(config, XPathRead)
        \/ k = 6 /\ Rule6_ShortAnchor(AnchorRead)
        \/ k = 7 /\ Rule7_UrlAnchor(AnchorRead)}

\* C7: is_mechanical_link evaluates the rules origin vocabulary, link type,
\* anchor pattern, dom_path keyword, selector token, short anchor, URL anchor
\* in that order, returns mechanical at the first rule that matches and
\* editorial only when none matches: a record of origin 'Contenu' whose
\* anchor matches an anchor pattern is mechanical, and a record of a
\* navigation origin is mechanical whatever its anchor.
C7_RulePriority ==
    Classified =>
        /\ MatchingRules # {} =>
               /\ call.result[1].returned = {TRUE}
               /\ call.result[1].return_point = SetMin(MatchingRules)
        /\ MatchingRules = {} => call.result[1].returned = {FALSE}
        /\ (OriginRead = <<"c","o","n","t","e","n","u">> /\ AnchorPatternMatches)
               => call.result[1].returned = {TRUE}
        /\ Contains(<<"n","a","v","i","g","a","t","i","o","n">>, OriginRead)
               => call.result[1].returned = {TRUE}

\* the row has the origin 'breadcrumb' and a descriptive anchor, and none of
\* the rules 2 to 7 matches it
BreadcrumbOriginOnly ==
    /\ OriginRead = <<"b","r","e","a","d","c","r","u","m","b">>
    /\ AnchorRead = Descriptive
    /\ MatchingRules \subseteq {1}

OriginVocabulary ==
    {<<"n","a","v","i","g","a","t","i","o","n">>, <<"e","n","-","t","U+00EA","t","e">>, <<"p","i","e","d"," ","d","e"," ","p","a","g","e">>, <<"h","e","a","d","e","r">>, <<"f","o","o","t","e","r">>,
     <<"n","a","v">>, <<"m","e","n","u">>}

WithoutInvalidPatterns(cfg) ==
    [cfg EXCEPT !.mechanical_anchor_patterns =
        SelectSeq(@, LAMBDA pattern : pattern.kind # "malformed")]

\* C9: a malformed regular expression among the mechanical_anchor_patterns of
\* the configuration is skipped: every internal record of analyze_csv gets an
\* is_mechanical flag, and the flag is the label that the remaining patterns
\* and rules decide.
C9_InvalidPatternSkipped ==
    Analysed =>
        \A i \in 1..Len(audit.internal_links) :
            audit.internal_links[i].is_mechanical
                = {ReturnPoint(WithoutInvalidPatterns(config),
                               ClassifierColumns(fieldnames),
                               audit.internal_links[i]) > 0}

\* the trimmed anchor of the record begins with http://, https:// or www.,
\* in any letter case
HasUrlAnchor(link) ==
    LET anchor == Strip(Lower(link.cells[identify_columns(fieldnames).anchor]))
    IN  \/ StartsWith(anchor, <<"h","t","t","p",":","/","/">>)
        \/ StartsWith(anchor, <<"h","t","t","p","s",":","/","/">>)
        \/ StartsWith(anchor, <<"w","w","w",".">>)

\* C10: after analyze_csv has classified the records, no record whose
\* trimmed anchor begins with http://, https:// or www. has is_mechanical
\* False, and the url_anchors bucket of analyze_editorial_quality is empty.
C10_UrlAnchorNeverEditorial ==
    Analysed =>
        /\ \A i \in 1..Len(audit.internal_links) :
               HasUrlAnchor(audit.internal_links[i])
                   => audit.internal_links[i].is_mechanical # {FALSE}
        /\ audit.quality.anchor_quality.url_anchors = <<>>

\* the rule priority of C7 under the configurations whose patterns compile
RulePriorityWhenPatternsCompile ==
    config \in ValidConfigs => C7_RulePriority

\* the statement of C10 under the configurations whose patterns compile
UrlAnchorNeverEditorialWhenPatternsCompile ==
    config \in ValidConfigs => C10_UrlAnchorNeverEditorial

----------------------------------------------------------------------------
(* Claims about the embedding cache *)

\* the last operation was encode_with_cache and it returned an array
Encoded == call.fn = "encode_with_cache" /\ ~call.result[1].raised

\* the array the last encode_with_cache call returned
Returned == call.result[1].returned

\* the step is an encode_with_cache call on the texts of the call before it
SameTextsAgain ==
    /\ call.fn = "encode_with_cache"
    /\ call'.fn = "encode_with_cache"
    /\ call'.args = call.args

\* C11: with the model available and the cache directory writable, a second
\* encode_with_cache call on the same texts of length >= 3 returns the vectors
\* the first call returned and does not invoke self.model.encode
C11_CacheIdempotence ==
    [][(/\ SameTextsAgain
        /\ model = "loaded"
        /\ directory = "writable"
        /\ \A i \in 1..Len(call.args) : Len(call.args[i]) >= MinTextLength)
       => (/\ call'.result[1].returned = call.result[1].returned
           /\ ~call.result[1].raised
           /\ ~call'.result[1].raised
           /\ encode_calls' = encode_calls)]_vars

\* a call answered from the cache alone after the one call that invoked the
\* model: the state a second call on "seo" and "guide seo" leaves
C11_Witness ==
    /\ Encoded
    /\ model = "loaded"
    /\ directory = "writable"
    /\ call.args = <<<<"s","e","o">>, <<"g","u","i","d","e"," ","s","e","o">>>>
    /\ Returned = <<Embedding(<<"s","e","o">>), Embedding(<<"g","u","i","d","e"," ","s","e","o">>)>>
    /\ call.result[1].encoded = <<>>
    /\ encode_calls = 1

\* the text is one encode_with_cache looks up: not empty, three characters
\* or more once stripped
LookedUp(text) == Len(Strip(text)) >= MinTextLength

\* the directory holds a file for the text that pickle.load can read
Readable(files, text) ==
    /\ _get_cache_key(text) \in DOMAIN files
    /\ files[_get_cache_key(text)].kind = "pickle"

\* the texts of the list that are looked up and not found, in input order
Misses(files, texts) == SelectSeq(texts, LAMBDA t : LookedUp(t) /\ ~Readable(files, t))

\* the vector of a text: zeros, the vector in the cache, or the model's
VectorOf(files, text) ==
    IF ~LookedUp(text) THEN Zeros
    ELSE IF Readable(files, text) THEN files[_get_cache_key(text)].vector
    ELSE Embedding(text)

\* the step is an encode_with_cache call with the model available
EncodeStep == call'.fn = "encode_with_cache" /\ model = "loaded"

\* what C12 states of one call: one model call on the misses, every new
\* vector in the cache when the call is over, an aligned array returned
BatchedAndAligned ==
    LET texts == call'.args
        misses == Misses(cache, texts)
        result == call'.result[1]
    IN  /\ ~result.raised
        /\ result.encoded = IF misses = <<>> THEN <<>> ELSE <<misses>>
        /\ \A j \in 1..Len(misses) :
              /\ _get_cache_key(misses[j]) \in DOMAIN cache'
              /\ cache'[_get_cache_key(misses[j])]
                    = Pickled(Embedding(misses[j]))
        /\ Len(result.returned) = Len(texts)
        /\ \A i \in 1..Len(texts) :
              result.returned[i] = VectorOf(cache, texts[i])

\* C12: one encode_with_cache call invokes the model at most once, with
\* exactly the cache misses in input order, persists every newly computed
\* vector under the hash of its own text before it returns, and returns an
\* array of the input's length whose position i holds the vector of texts[i]
C12_BatchingAndAlignment == [][EncodeStep => BatchedAndAligned]_vars

\* the statement of C12 in a directory where files can be created
BatchingAndAlignmentWhenWritable ==
    [][EncodeStep /\ directory = "writable" => BatchedAndAligned]_vars

\* a call on a short text and a miss in a writable directory
BatchingAndAlignmentCase ==
    /\ Encoded
    /\ directory = "writable"
    /\ call.args = <<<<" ","a"," ">>, <<"g","u","i","d","e"," ","s","e","o">>>>
    /\ call.result[1].encoded = <<<<<<"g","u","i","d","e"," ","s","e","o">>>>>>
    /\ Returned = <<Zeros, Embedding(<<"g","u","i","d","e"," ","s","e","o">>)>>

\* the step removes the file of some key
RemovesEntry == \E k \in DOMAIN cache : k \notin DOMAIN cache'

\* C14: over encode_with_cache calls an entry once created is never
\* rewritten and never removed, the set of cached keys only grows, and only
\* clear_cache removes entries, all of them
C14_AsStated ==
    [][/\ call'.fn = "encode_with_cache"
          => \A k \in DOMAIN cache :
                k \in DOMAIN cache' /\ cache'[k] = cache[k]
       /\ RemovesEntry => call'.fn = "clear_cache" /\ cache' = <<>>]_vars

\* C14 (amended): an entry that can be read is never rewritten and never
\* removed by encode_with_cache; an entry that cannot be read is written
\* again with the vector of its text when a call with the model available
\* looks it up in a writable directory, and stays as it is otherwise; the
\* set of cached keys only grows, and only clear_cache removes entries, all
\* of them
C14_ReadableEntriesKept ==
    [][/\ call'.fn = "encode_with_cache"
          => \A k \in DOMAIN cache :
                /\ k \in DOMAIN cache'
                /\ cache'[k] =
                      IF /\ cache[k].kind = "corrupt"
                         /\ model = "loaded"
                         /\ directory = "writable"
                         /\ \E i \in 1..Len(call'.args) : call'.args[i] = k[2]
                      THEN Pickled(Embedding(k[2]))
                      ELSE cache[k]
       /\ RemovesEntry => call'.fn = "clear_cache" /\ cache' = <<>>]_vars

\* a call that found a readable file for "guide seo" and a corrupt one for
\* "seo": the first is kept, the second written again
C14_Witness ==
    /\ Encoded
    /\ call.args = <<<<"s","e","o">>>>
    /\ call.result[1].found =
          [k \in {_get_cache_key(<<"s","e","o">>), _get_cache_key(<<"g","u","i","d","e"," ","s","e","o">>)} |->
              IF k[2] = <<"s","e","o">> THEN Corrupt
              ELSE Pickled(Embedding(<<"g","u","i","d","e"," ","s","e","o">>))]
    /\ cache =
          [k \in {_get_cache_key(<<"s","e","o">>), _get_cache_key(<<"g","u","i","d","e"," ","s","e","o">>)} |->
              Pickled(Embedding(k[2]))]

\* the last call found a file it could not read for the i-th of its texts
FoundCorrupt(i) ==
    /\ _get_cache_key(call.args[i]) \in DOMAIN call.result[1].found
    /\ call.result[1].found[_get_cache_key(call.args[i])].kind = "corrupt"

\* what C16 states of the i-th text of the last call
TreatedAsMiss(i) ==
    /\ ~call.result[1].raised
    /\ \E b \in 1..Len(call.result[1].encoded) :
          \E j \in 1..Len(call.result[1].encoded[b]) :
              call.result[1].encoded[b][j] = call.args[i]
    /\ Returned[i] = Embedding(call.args[i])
    /\ _get_cache_key(call.args[i]) \in DOMAIN cache
    /\ cache[_get_cache_key(call.args[i])] = Pickled(Embedding(call.args[i]))

\* C16: when reading the cache entry of a text fails, encode_with_cache does
\* not raise, sends the text to the model in the miss batch, returns the
\* freshly computed vector at the text's position and stores it again under
\* the same key
C16_CorruptEntryIsMiss ==
    (call.fn = "encode_with_cache" /\ model = "loaded")
       => \A i \in 1..Len(call.args) : FoundCorrupt(i) => TreatedAsMiss(i)

\* the statement of C16 in a directory where files can be created and removed
CorruptEntryIsMissWhenWritable ==
    (call.fn = "encode_with_cache" /\ model = "loaded"
        /\ directory = "writable")
       => \A i \in 1..Len(call.args) : FoundCorrupt(i) => TreatedAsMiss(i)

\* a call that met a corrupt entry in a read-only directory and raised
CorruptEntryInReadOnlyDirectory ==
    /\ call.fn = "encode_with_cache"
    /\ directory = "read-only"
    /\ call.args = <<<<"s","e","o">>>>
    /\ FoundCorrupt(1)
    /\ call.result[1].raised

----------------------------------------------------------------------------
(* Claims about an unavailable model *)

\* without a model encode_with_cache returns no row of zeros for a text of
\* three characters or more
NoZerosWithoutModel ==
    (call.fn = "encode_with_cache" /\ model = "unavailable")
       => \A i \in 1..Len(Returned) :
             Len(call.args[i]) >= MinTextLength => Returned[i] # Zeros

\* what encode_with_cache returns with a model differs from what it returns
\* on the same texts without one
UnavailabilityDistinct ==
    (Encoded /\ model = "loaded")
       => Returned # encode_with_cache(call.result[1].found, directory,
                                       "unavailable", call.args).returned

\* without a model analyze_semantic_coherence reports no score
NoScoreWithoutModel ==
    (call.fn = "analyze_semantic_coherence" /\ model = "unavailable")
       => Returned = <<>>

\* C13: when the model is unavailable callers can tell: encode_with_cache
\* returns no zero vector for a text of length >= 3, its unavailability
\* result differs from every result it returns with the model available, and
\* analyze_semantic_coherence reports no numeric score for the pairs it could
\* not embed
C13_UnavailabilityDistinguishable ==
    /\ NoZerosWithoutModel
    /\ UnavailabilityDistinct
    /\ NoScoreWithoutModel

\* without a model, the coherence of one anchor and one page is reported as 0
ZeroScoreWithoutModel ==
    /\ call.fn = "analyze_semantic_coherence"
    /\ model = "unavailable"
    /\ call.args.anchors = <<<<"g","u","i","d","e"," ","s","e","o">>>>
    /\ call.args.page_contents = <<<<"g","u","i","d","e"," ","s","e","o">>>>
    /\ Returned = <<0>>

----------------------------------------------------------------------------
(* Claims about the themes and the gaps *)

\* the last operation was cluster_semantic_themes
Clustered == call.fn = "cluster_semantic_themes"

\* the anchors of the last call whose trimmed length is above 3
TrimmedLong ==
    SelectSeq(call.args.anchor_texts, LAMBDA a : Len(Strip(a)) > 3)

\* the distinct case-folded trimmed anchors among them
DistinctFolded == {Lower(Strip(TrimmedLong[i])) : i \in 1..Len(TrimmedLong)}

\* one of the two gates of C17 is closed for the last call
Gated ==
    \/ Len(TrimmedLong) < call.args.min_cluster_size
    \/ 100 * Cardinality(DistinctFolded) < 30 * Len(TrimmedLong)

\* C17: cluster_semantic_themes returns an empty mapping, without calling
\* the embedder, when fewer than min_cluster_size anchors have trimmed length
\* above 3 or when the distinct case-folded trimmed anchors are less than
\* 0.30 of the filtered anchors
C17_ClusteringGates ==
    (Clustered /\ Gated)
       => /\ ~call.result[1].raised
          /\ Returned = <<>>
          /\ call.result[1].embedder_calls = 0
          /\ call.result[1].encoded = <<>>
          /\ encode_calls = 0
          /\ cache = call.result[1].found

\* nine 'cliquez ici' and one other anchor, with a model loaded: an empty
\* mapping
C17_Witness ==
    /\ Clustered
    /\ model = "loaded"
    /\ Len(call.args.anchor_texts) = 10
    /\ call.args.anchor_texts[1] = <<"c","l","i","q","u","e","z"," ","i","c","i">>
    /\ call.args.anchor_texts[10] = <<"g","u","i","d","e"," ","s","e","o">>
    /\ Len(TrimmedLong) = 10
    /\ Cardinality(DistinctFolded) = 2
    /\ Returned = <<>>

\* C18: whatever labels the clustering step gives, also in its second run,
\* every theme of the mapping returned has min_cluster_size members or more,
\* its members are the anchors of the rows of one cluster, none of them an
\* anchor labelled noise, and every member is a filtered input anchor
C18_ClusterInvariant ==
    (Clustered /\ ~call.result[1].raised)
       => \A theme \in DOMAIN Returned :
             LET members == Returned[theme]
                 labels == call.result[1].labels
             IN  /\ Len(members) >= call.args.min_cluster_size
                 /\ Len(labels) = Len(TrimmedLong)
                 /\ \E c \in Range(labels) \ {-1} :
                       members = ClusterMembers(TrimmedLong, labels, c)
                 /\ \A i \in 1..Len(labels) :
                       labels[i] = -1 => TrimmedLong[i] \notin Range(members)
                 /\ Range(members) \subseteq Range(TrimmedLong)

\* a theme returned after the second run, which left one row as noise
C18_Witness ==
    /\ Clustered
    /\ call.result[1].runs = 2
    /\ call.args.min_cluster_size = 2
    /\ call.args.anchor_texts = <<<<"g","u","i","d","e"," ","s","e","o">>, <<"a"," ","b"," ","c">>, <<"g","u","i","d","e"," ","p","a","r","i","s">>>>
    /\ call.result[1].labels = <<0, -1, 0>>
    /\ DOMAIN Returned = {<<"G","u","i","d","e"," ","(","2"," ","l","i","e","n","s",")">>}
    /\ Returned[<<"G","u","i","d","e"," ","(","2"," ","l","i","e","n","s",")">>] = <<<<"g","u","i","d","e"," ","s","e","o">>, <<"g","u","i","d","e"," ","p","a","r","i","s">>>>

\* the last operation was find_semantic_gaps
GapsSought == call.fn = "find_semantic_gaps"

\* the similarity of the i-th and the j-th page of the last call
PageSimilarity(i, j) ==
    cosine_similarity(
        VectorOf(call.result[1].found, call.args.page_contents[i].content),
        VectorOf(call.result[1].found, call.args.page_contents[j].content),
        call.args.s)

\* the pairs of distinct pages of the last call above its threshold
AboveThreshold ==
    {p \in (1..Len(call.args.page_contents))
              \X (1..Len(call.args.page_contents)) :
        p[1] < p[2] /\ PageSimilarity(p[1], p[2]) > call.args.threshold}

\* what C19 states of the list returned for two pages or more with a model
GapsEmitted ==
    LET url(i) == call.args.page_contents[i].url
    IN  /\ ~call.result[1].raised
        /\ Len(Returned) = IntMin(Cardinality(AboveThreshold), TopOpportunities)
        /\ \A k \in 1..Len(Returned) :
              \E p \in AboveThreshold :
                 Returned[k] = <<url(p[1]), url(p[2]),
                                 PageSimilarity(p[1], p[2])>>
        /\ \A k, l \in 1..Len(Returned) :
              k # l => {Returned[k][1], Returned[k][2]}
                          # {Returned[l][1], Returned[l][2]}
        /\ \A k \in 1..(Len(Returned) - 1) :
              Returned[k][3] >= Returned[k + 1][3]
        /\ \A p \in AboveThreshold :
              \/ \E k \in 1..Len(Returned) :
                    Returned[k][1] = url(p[1]) /\ Returned[k][2] = url(p[2])
              \/ PageSimilarity(p[1], p[2]) <= Returned[Len(Returned)][3]

\* C19: find_semantic_gaps emits each unordered pair of distinct pages whose
\* similarity is strictly above the threshold exactly once, by non-increasing
\* similarity, and returns at most the 20 highest; with fewer than two pages
\* or no model it returns an empty list
C19_SemanticGaps ==
    GapsSought
       => IF Len(call.args.page_contents) < 2 \/ model = "unavailable"
          THEN ~call.result[1].raised /\ Returned = <<>>
          ELSE GapsEmitted

\* the statement of C19 for the calls that return
SemanticGapsWhenReturned ==
    (GapsSought /\ ~call.result[1].raised)
       => IF Len(call.args.page_contents) < 2 \/ model = "unavailable"
          THEN Returned = <<>>
          ELSE GapsEmitted

\* seven pages, twenty-one pairs above the threshold, twenty returned, the
\* pairs of equal pages before the others
TwentyOfTwentyOne ==
    /\ GapsSought
    /\ Len(call.args.page_contents) = 7
    /\ Cardinality(AboveThreshold) = 21
    /\ Len(Returned) = TopOpportunities
    /\ Returned[1][3] = 100
    /\ Returned[TopOpportunities][3] = 65

\* find_semantic_gaps raised on a corrupt entry in a read-only directory
GapsRaised ==
    /\ GapsSought
    /\ call.result[1].raised
    /\ directory = "read-only"
    /\ Len(call.args.page_contents) = 2

\* the entry of the text the concurrent runs share
SharedKey == _get_cache_key(<<"s","e","o">>)

\* the entry holds the complete vector of its text
EntryComplete(files) ==
    /\ SharedKey \in DOMAIN files
    /\ files[SharedKey] = Pickled(Embedding(<<"s","e","o">>))

\* no reader ever returns a partially written vector
PartialNeverReturned ==
    \A p \in DOMAIN processes :
       processes[p].returned \in {<<>>, <<[vector |-> "None", of |-> <<>>]>>,
                                  <<Embedding(<<"s","e","o">>)>>}

\* no process raises
NoProcessRaises == \A p \in DOMAIN processes : processes[p].pc # "raised"

\* after all writers finish the key holds a complete vector
CompleteAfterWriters ==
    (/\ \A p \in DOMAIN processes : processes[p].pc = "idle"
     /\ \E p \in DOMAIN processes : processes[p].wrote)
       => EntryComplete(cache)

\* a reader removes the entry
ReaderRemoves ==
    /\ SharedKey \in DOMAIN cache
    /\ SharedKey \notin DOMAIN cache'

\* no reader removes an entry that a writer is writing or has completed
NoLiveEntryRemoved ==
    ReaderRemoves
       => /\ ~EntryComplete(cache)
          /\ \A p \in DOMAIN processes :
                ~(processes[p].pc = "opened" /\ processes[p].linked)

\* C15: with two processes interleaving _cache_embedding and
\* _get_cached_embedding on the same key, no reader returns a partially
\* written vector, no reader removes an entry that a writer is writing or has
\* completed, no process raises, and after all writers finish the key holds a
\* complete vector
C15_ConcurrentRunsDoNotCorrupt ==
    /\ [](PartialNeverReturned /\ NoProcessRaises /\ CompleteAfterWriters)
    /\ [][NoLiveEntryRemoved]_vars

\* the removal of an entry that a writer is writing or has completed
C15_LiveEntryRemoved == [][NoLiveEntryRemoved]_vars

\* a run has written its vector, every run is back from its call, and the
\* directory holds no entry for the text
WrittenEntryLost ==
    /\ \A p \in DOMAIN processes : processes[p].pc = "idle"
    /\ \E p \in DOMAIN processes : processes[p].wrote
    /\ SharedKey \notin DOMAIN cache

\* a run left _get_cached_embedding with the exception of os.remove
ReaderRaised ==
    /\ \E p \in DOMAIN processes : processes[p].pc = "raised"
    /\ \E p \in DOMAIN processes :
          processes[p].returned = <<[vector |-> "None", of |-> <<>>]>>

\* a call of analyze_csv: the only step that leaves the rows as they are
AnalyzeStep == rows' = rows

\* the semantic stage of the call raises
StageRaises ==
    LET report == analyze_csv(config, fieldnames, rows)
    IN  /\ report.returned = "report"
        /\ analyze_semantic_advanced(
               cache, directory, model, EditorialLinks(report.internal_links),
               identify_columns(fieldnames).anchor, <<>>, <<>>).raised

\* the call returns what a run without the semantic stage returns: the same
\* classification, statistics, orphan list and editorial score
Additive ==
    LET report == analyze_csv(config, fieldnames, rows)
    IN  /\ audit'.returned = report.returned
        /\ \A f \in DOMAIN report : f \in DOMAIN audit' /\ audit'[f] = report[f]

\* C20: if the embedding model is unavailable or the semantic stage raises
\* during analyze_csv, the classification, the graph statistics, the orphan
\* list and the editorial score are still produced and the report is still
\* returned, identical to a run without the semantic stage
C20_SemanticStageAdditive ==
    [][(AnalyzeStep /\ (model = "unavailable" \/ StageRaises)) => Additive]_vars

\* the statement of C20 for the calls whose semantic stage returns, with a
\* model or without
AdditiveWhenStageReturns == [][(AnalyzeStep /\ ~StageRaises) => Additive]_vars

\* without a model the report is returned, with an empty mapping of themes
ReportWithoutModel ==
    /\ model = "unavailable"
    /\ audit.returned = "report"
    /\ audit.advanced_semantic = {[semantic_clusters |-> <<>>]}
    /\ audit.analysis.orphan_pages # {}

\* with a model the report is returned with the theme of its anchors
ReportWithThemes ==
    /\ model = "loaded"
    /\ audit.returned = "report"
    /\ \E results \in audit.advanced_semantic :
          DOMAIN results.semantic_clusters = {<<"G","u","i","d","e"," ","(","2"," ","l","i","e","n","s",")">>}

----------------------------------------------------------------------------
(* Properties of the aggregate statistics *)

\* the fractions a and b are the same number
SameNumber(a, b) == a.num * b.den = b.num * a.den

\* the rows test_stats_fix.py writes: three pages, three links of the
\* content and two of the navigation
StatsExample ==
    LET page(n) == Url("example.com", <<"/","p","a","g","e">> \o Str(n))
    IN  <<TestRow(page(1), page(2), <<"l","i","e","n"," ","v","e","r","s"," ","p","a","g","e"," ","2">>, <<"C","o","n","t","e","n","u">>),
          TestRow(page(1), page(3), <<"v","o","i","r"," ","p","a","g","e"," ","3">>, <<"C","o","n","t","e","n","u">>),
          TestRow(page(2), page(1), <<"r","e","t","o","u","r"," ","a","c","c","u","e","i","l">>, <<"N","a","v","i","g","a","t","i","o","n">>),
          TestRow(page(3), page(1), <<"a","c","c","u","e","i","l">>, <<"N","a","v","i","g","a","t","i","o","n">>),
          TestRow(page(2), page(3), <<"a","r","t","i","c","l","e"," ","c","o","n","n","e","x","e">>, <<"C","o","n","t","e","n","u">>)>>

\* the statistics of the audit of the rows of test_stats_fix.py
StatsExampleHolds ==
    LET stats == analyze_csv(DefaultConfig, TestHeader, StatsExample).analysis.stats
    IN  /\ stats.total_pages = 3
        /\ stats.total_internal_links = 5
        /\ stats.editorial_links = 3
        /\ SameNumber(stats.editorial_ratio, Fraction(60, 1))
        /\ SameNumber(stats.avg_editorial_per_page, Fraction(1, 1))

\* the relations between the statistics of a report
StatsRelations(internal_links, stats) ==
    LET sources == {SourceOf(internal_links[i]) : i \in 1..Len(internal_links)}
    IN  /\ stats.total_pages = Cardinality(sources)
        /\ stats.total_internal_links = Len(internal_links)
        /\ stats.editorial_links + stats.mechanical_links
              = stats.total_internal_links
        /\ SameNumber(stats.editorial_ratio,
                      IF stats.total_internal_links = 0 THEN Fraction(0, 1)
                      ELSE Fraction(100 * stats.editorial_links,
                                    stats.total_internal_links))
        /\ SameNumber(stats.avg_editorial_per_page,
                      IF stats.total_pages = 0 THEN Fraction(0, 1)
                      ELSE Fraction(stats.editorial_links, stats.total_pages))

\* C21: in every report total_pages is the number of distinct source URLs of
\* the internal links, editorial_links + mechanical_links is
\* total_internal_links, editorial_ratio is 100 * editorial_links /
\* total_internal_links and avg_editorial_per_page is editorial_links /
\* total_pages, both 0 when their denominator is 0; and three editorial links
\* out of five over three source pages give total_pages 3 and ratio 60
C21_AggregateStatistics ==
    /\ StatsExampleHolds
    /\ Analysed => StatsRelations(audit.internal_links, audit.analysis.stats)

\* C21 happens: a report over two source pages whose quotients are not whole
\* numbers of links
C21_Witness ==
    /\ Analysed
    /\ audit.analysis.stats.total_pages = 2
    /\ audit.analysis.stats.total_internal_links = 3
    /\ audit.analysis.stats.editorial_links = 2
    /\ audit.analysis.stats.mechanical_links = 1

\* the denominators of C21 are 0: a report of a file without internal links
NoInternalLinks ==
    /\ Analysed
    /\ audit.internal_links = <<>>
    /\ audit.analysis.stats.total_pages = 0
    /\ audit.analysis.stats.editorial_ratio = Fraction(0, 1)
    /\ audit.analysis.stats.avg_editorial_per_page = Fraction(0, 1)

----------------------------------------------------------------------------
(* Properties of the anchor buckets *)

StuffedAnchor == <<"c","l","i","q","u","e","z"," ","i","c","i"," ","c","l","i","q","u","e","z"," ","i","c","i"," ","c","l","i","q","u","e","z"," ","i","c","i">>

\* the bucket of anchor_quality holds an entry for the anchor
InBucket(bucket, anchor) ==
    \E i \in 1..Len(audit.quality.anchor_quality[bucket]) :
        audit.quality.anchor_quality[bucket][i].anchor = anchor

\* the report is that of a file with an editorial link whose anchor is
\* 'cliquez ici cliquez ici cliquez ici'
StuffedAnchorAudited ==
    /\ Analysed
    /\ \E i \in 1..Len(audit.internal_links) :
          /\ Editorial(audit.internal_links[i])
          /\ audit.internal_links[i].cells[4] = StuffedAnchor

\* C22 as stated: the anchor 'cliquez ici cliquez ici cliquez ici' of an
\* editorial link is in keyword_stuffed, not in too_long and not in
\* good_quality
C22_AsStated ==
    StuffedAnchorAudited =>
        /\ InBucket("keyword_stuffed", StuffedAnchor)
        /\ ~InBucket("too_long", StuffedAnchor)
        /\ ~InBucket("good_quality", StuffedAnchor)

\* C22, amended: the anchor 'cliquez ici cliquez ici cliquez ici' of an
\* editorial link, which has six words, is in keyword_stuffed, not in
\* too_long, and in good_quality
C22_StuffedAnchorBuckets ==
    StuffedAnchorAudited =>
        /\ InBucket("keyword_stuffed", StuffedAnchor)
        /\ ~InBucket("too_long", StuffedAnchor)
        /\ InBucket("good_quality", StuffedAnchor)
        /\ ~InBucket("too_short", StuffedAnchor)

\* C22 happens: the report of a file whose only link is editorial and has
\* the anchor, which the report lists in keyword_stuffed
C22_Witness ==
    /\ StuffedAnchorAudited
    /\ InBucket("keyword_stuffed", StuffedAnchor)
    /\ Len(audit.internal_links) = 1

----------------------------------------------------------------------------
(* Properties of the columns the stages read *)

\* analyze_linking_patterns reads source and destination from the columns
\* analyze_csv used, linked_pages holds the destination of every editorial
\* link and no orphan page has an editorial inbound link
ColumnsConsistent ==
    /\ PatternColumn(audit.internal_links, fieldnames, "source")
          = identify_columns(fieldnames).source
    /\ PatternColumn(audit.internal_links, fieldnames, "dest")
          = identify_columns(fieldnames).dest
    /\ \A i \in 1..Len(audit.internal_links) :
          Editorial(audit.internal_links[i])
             => DestinationOf(audit.internal_links[i])
                   \in audit.analysis.linked_pages
    /\ \A p \in audit.analysis.orphan_pages : EditorialInbound(p) = {}

\* C26: for every header that analyze_csv accepts, when the file has internal
\* links, analyze_linking_patterns reads source and destination from the
\* columns analyze_csv used for the partition; also when the destination
\* column is named 'Target', linked_pages holds the destination of every
\* editorial link and a page with an editorial inbound link is not an orphan
C26_ColumnConsistency ==
    (Analysed /\ audit.internal_links # <<>>) => ColumnsConsistent

\* the statement of C26 for the header whose destination column is named
\* 'Destination'
ColumnConsistencyWithDestination ==
    (Analysed /\ audit.internal_links # <<>> /\ fieldnames = TestHeader)
        => ColumnsConsistent

\* under the header with 'Target' every source page is reported as orphan,
\* the pages with an editorial inbound link too
TargetColumnNotRead ==
    /\ Analysed
    /\ fieldnames = TargetHeader
    /\ PatternColumn(audit.internal_links, fieldnames, "dest") = 0
    /\ audit.analysis.linked_pages = {}
    /\ \E p \in audit.analysis.orphan_pages : EditorialInbound(p) # {}

----------------------------------------------------------------------------
(* Properties of the classification counts *)

\* every internal link carries the flag, the two counts add up to the number
\* of internal links and the statistics repeat them
Bookkeeping ==
    /\ \A i \in 1..Len(audit.internal_links) :
          audit.internal_links[i].is_mechanical # {}
    /\ audit.mechanical_count + audit.editorial_count
          = Len(audit.internal_links)
    /\ audit.analysis.stats.editorial_links = audit.editorial_count
    /\ audit.analysis.stats.mechanical_links = audit.mechanical_count

\* C25: after the row loop of analyze_csv every row of internal_links carries
\* an is_mechanical flag, mechanical_count + editorial_count is
\* len(internal_links) and the statistics have editorial_links =
\* editorial_count and mechanical_links = mechanical_count, also when the
\* classification of a row raised: that row is counted as an error and not
\* as an editorial link
C25_ClassificationBookkeeping == Analysed => Bookkeeping

\* the statement of C25 for the audits in which no classification raises
BookkeepingWhenNoRowRaises ==
    (Analysed /\ config \in ValidConfigs) => Bookkeeping

\* a row whose classification raised is an internal link without a flag,
\* counted as an error and, in the statistics, as an editorial link
UnclassifiedRowCountedEditorial ==
    /\ Analysed
    /\ Len(audit.internal_links) = 1
    /\ audit.internal_links[1].is_mechanical = {}
    /\ audit.error_count = 1
    /\ audit.editorial_count = 0
    /\ audit.analysis.stats.editorial_links = 1

----------------------------------------------------------------------------
(* Properties of the clustering passes and of the theme names *)

\* the last call of cluster_semantic_themes returned after clustering
ThemesClustered ==
    /\ Clustered
    /\ ~call.result[1].raised
    /\ call.result[1].runs >= 1

\* the clusters of a labelling
ClustersOf(labels) == Range(labels) \ {-1}

\* the first pass gave a single cluster, with more than half of the filtered
\* anchors
SingleDominantCluster ==
    LET first_labels == call.result[1].first_labels
    IN  /\ Cardinality(ClustersOf(first_labels)) = 1
        /\ 2 * Cardinality({i \in 1..Len(first_labels) : first_labels[i] # -1})
              > Len(TrimmedLong)

\* C23: whenever the first clustering pass yields a single cluster holding
\* more than half of the filtered anchors, with or without noise,
\* cluster_semantic_themes runs the clustering a second time, once; in every
\* other case it does not; the clustering never runs more than twice
C23_AdaptiveReclustering ==
    ThemesClustered
       => /\ call.result[1].runs <= 2
          /\ call.result[1].runs = 2 <=> SingleDominantCluster

\* the statement of C23 for the first passes that label a row as noise
ReclusteringWhenNoise ==
    (ThemesClustered /\ -1 \in Range(call.result[1].first_labels))
       => /\ call.result[1].runs <= 2
          /\ call.result[1].runs = 2 <=> SingleDominantCluster

\* a first pass that puts every anchor in one cluster is not run again
WholeClusterNotRerun ==
    /\ ThemesClustered
    /\ call.args.anchor_texts = <<<<"g","u","i","d","e"," ","s","e","o">>, <<"g","u","i","d","e"," ","p","a","r","i","s">>, <<"a"," ","b"," ","c">>>>
    /\ call.result[1].first_labels = <<0, 0, 0>>
    /\ call.result[1].runs = 1

\* the members of a cluster of the labels the last call used
MembersOf(c) == ClusterMembers(TrimmedLong, call.result[1].labels, c)

\* the clusters of the last call with min_cluster_size members or more
Surviving ==
    {c \in ClustersOf(call.result[1].labels) :
        Len(MembersOf(c)) >= call.args.min_cluster_size}

\* every word of the anchors is a stop word or has three characters or fewer
NoNameableToken(anchors) ==
    \A i \in 1..Len(anchors) :
       \A w \in Range(Split(Lower(anchors[i]))) :
          Len(w) <= 3 \/ w \in french_stop_words

GenericLabel(c) == <<"T","h","U+00E8","m","e"," ">> \o Str(c + 1)

\* C24: a cluster of min_cluster_size anchors or more whose anchors yield no
\* nameable token (every word is a stop word or has three characters or
\* fewer) is returned under its generic label 'Thème N'
C24_NamingFallback ==
    ThemesClustered
       => \A c \in Surviving :
             NoNameableToken(MembersOf(c))
                => /\ GenericLabel(c) \in DOMAIN Returned
                   /\ Returned[GenericLabel(c)] = MembersOf(c)

\* a cluster whose anchors have nameable words, none of them twice, is
\* returned under its generic label
GenericLabelWhenNoFrequentWord ==
    /\ ThemesClustered
    /\ call.args.anchor_texts = <<<<"g","u","i","d","e"," ","s","e","o">>, <<"a","u","d","i","t"," ","p","a","r","i","s">>>>
    /\ call.result[1].labels = <<0, 0>>
    /\ DOMAIN Returned = {<<"T","h","U+00E8","m","e"," ","1">>}

\* a cluster whose anchors have no nameable word is not returned
UnnamedClusterDropped ==
    /\ ThemesClustered
    /\ call.args.anchor_texts = <<<<"a"," ","b"," ","c">>, <<"a"," ","b"," ","c">>>>
    /\ call.args.min_cluster_size = 2
    /\ call.result[1].labels = <<0, 0>>
    /\ Returned = <<>>

\* C27: the number of themes returned is the number of clusters with
\* min_cluster_size members or more and a nameable word, every anchor of
\* such a cluster is in the result, and no two clusters are stored under one
\* theme name
C27_NoClusterLostToNaming ==
    ThemesClustered
       => LET nameable == {c \in Surviving : ~NoNameableToken(MembersOf(c))}
          IN  /\ Cardinality(DOMAIN Returned) = Cardinality(nameable)
              /\ \A c \in nameable :
                    \E theme \in DOMAIN Returned :
                       Returned[theme] = MembersOf(c)

\* the statement of C27 for the calls with at most one nameable cluster
NoClusterLostWhenOneCluster ==
    (ThemesClustered
       /\ Cardinality({c \in Surviving : ~NoNameableToken(MembersOf(c))}) <= 1)
       => LET nameable == {c \in Surviving : ~NoNameableToken(MembersOf(c))}
          IN  /\ Cardinality(DOMAIN Returned) = Cardinality(nameable)
              /\ \A c \in nameable :
                    \E theme \in DOMAIN Returned :
                       Returned[theme] = MembersOf(c)

\* two clusters named after the same word: one theme, the anchors of the
\* first cluster lost
ClusterOverwritten ==
    /\ ThemesClustered
    /\ call.args.anchor_texts
          = <<<<"g","u","i","d","e"," ","s","e","o">>, <<"G","u","i","d","e"," ","S","E","O"," ">>, <<"g","u","i","d","e"," ","p","a","r","i","s">>, <<"g","u","i","d","e"," ","l","y","o","n">>>>
    /\ call.result[1].labels = <<0, 0, 1, 1>>
    /\ DOMAIN Returned = {<<"G","u","i","d","e"," ","(","2"," ","l","i","e","n","s",")">>}
    /\ Returned[<<"G","u","i","d","e"," ","(","2"," ","l","i","e","n","s",")">>] = <<<<"g","u","i","d","e"," ","p","a","r","i","s">>, <<"g","u","i","d","e"," ","l","y","o","n">>>>

----------------------------------------------------------------------------
(* Properties of the crawl retry loop *)

CrawlReturned == crawl.pc = "returned"

\* how a failed crawl is classified: by the first test its output passes
DiagnosedAs(last) ==
    LET order == <<"403", "404", "timeout", "license", "memory",
                   "rate limit", "blocked">>
        passed == {k \in 1..Len(order) : order[k] \in last.output_text}
    IN  IF last.event # "exit 1" THEN last.event
        ELSE IF passed = {} THEN "unclassified"
        ELSE order[SetMin(passed)]

\* the failures after which the claim lets a further attempt start
Retryable ==
    {"403", "timeout", "rate limit", "blocked", "no config",
     "TimeoutExpired", "Exception"}

\* the crawler is launched at most max_attempts times, and the call returns
\* the path of a CSV file or None
CrawlBounded ==
    /\ crawl.launches <= crawl.max_attempts
    /\ crawl.last # <<>> => crawl.last.attempt <= crawl.max_attempts
    /\ CrawlReturned => crawl.returned \in {"csv", "partial csv", "None"}

\* a failure classified as 404, license or memory, or not classified, ends
\* the loop
CrawlStops ==
    (/\ crawl.last # <<>>
     /\ DiagnosedAs(crawl.last) \in {"404", "license", "memory", "unclassified"})
       => CrawlReturned

\* an attempt that follows another follows a failure that can be retried,
\* met before the last attempt
FurtherAttemptJustified ==
    (/\ crawl.last # <<>>
     /\ crawl'.last # <<>>
     /\ crawl'.last.attempt > crawl.last.attempt)
       => /\ DiagnosedAs(crawl.last) \in Retryable
          /\ crawl.last.attempt < crawl.max_attempts
          /\ crawl'.last.attempt = crawl.last.attempt + 1

ForbiddenBeforeNotFound ==
    /\ crawl.pc = "loop"
    /\ crawl.attempt = 2
    /\ crawl.last.output_text = {"403", "404"}

----------------------------------------------------------------------------
(* Properties of the temporary configuration files *)

\* C29: on every path by which run_new_crawl returns, every temporary
\* configuration file that create_screaming_frog_config created during the
\* call has been deleted
C29_TemporaryConfigCleanup == CrawlReturned => crawl.files = {}

\* the statement of C29 for the returns after a crawl that exited with code
\* 0, after an exception, and after a failure that was retried until the
\* last attempt and left no file
CleanupOnOtherPaths ==
    (/\ CrawlReturned
     /\ crawl.last # <<>>
     /\ \A k \in crawl.created \ {crawl.last.attempt} : k \notin crawl.files
     /\ \/ crawl.last.event \in {"exit 0", "FileNotFoundError",
                                 "TimeoutExpired", "Exception"}
        \/ /\ crawl.last.event = "exit 1"
           /\ DiagnosedAs(crawl.last) \notin {"404", "license", "memory"}
           /\ crawl.returned = "None")
       => crawl.files = {}

\* the file of the attempt stopped by a 404 is left behind
ConfigLeftAfterNotFound ==
    /\ CrawlReturned
    /\ crawl.last # <<>>
    /\ DiagnosedAs(crawl.last) = "404"
    /\ crawl.files = {crawl.last.attempt}

\* the file of the attempt whose partial CSV is returned is left behind
ConfigLeftAfterPartialFile ==
    /\ CrawlReturned
    /\ crawl.returned = "partial csv"
    /\ crawl.files = {crawl.last.attempt}

\* the file of an attempt whose configuration could not be written is left
\* behind
ConfigLeftAfterFailedCreation ==
    /\ CrawlReturned
    /\ crawl.last # <<>>
    /\ crawl.last.event = "no config"
    /\ crawl.last.attempt \in crawl.files

\* ---- C30 ----

WorkflowReturned ==
    /\ workflow # <<>>
    /\ workflow.pc = "returned"

\* at the check of step 2 one of the two exports of outgoing links was larger
\* than 1000 bytes and less than 30 days old
RecentDataAtCheck ==
    /\ workflow.checked # <<>>
    /\ \/ workflow.checked["tous_les_liens_sortants.csv"] = "recent"
       \/ workflow.checked["all_outlinks.csv"] = "recent"

CrawlFailed ==
    workflow.sf_success = "False"

PostProcessingFailed ==
    /\ workflow.post_started
    /\ workflow.filtered_report = ""

\* C30: in run_complete_workflow the crawl is started only when the check of
\* step 2 found no recent data, the post-processing never starts after a
\* crawl that failed, the semantic analysis starts only after the
\* post-processing returned a non-empty report path, and the value returned
\* is the empty string exactly when the crawl or the post-processing failed,
\* whatever the outcomes of the structure analysis and of the semantic
\* analysis.
C30_WorkflowStepOrdering ==
    workflow # <<>> =>
        /\ workflow.crawl_started => workflow.checked # <<>> /\ ~RecentDataAtCheck
        /\ workflow.post_started => ~CrawlFailed
        /\ workflow.semantic_started =>
                workflow.post_started /\ workflow.filtered_report # ""
        /\ WorkflowReturned =>
                /\ workflow.returned = "" <=> CrawlFailed \/ PostProcessingFailed
                /\ workflow.returned # "" =>
                        workflow.returned = workflow.filtered_report

\* the structure analysis and the semantic analysis both failed, the crawl ran
\* because the only export was old, and the report path was returned
C30_Witness ==
    /\ WorkflowReturned
    /\ ~workflow.structure_success
    /\ workflow.crawl_started
    /\ workflow.checked["all_outlinks.csv"] = "old"
    /\ workflow.sf_success = "True"
    /\ workflow.semantic_started
    /\ ~workflow.semantic_success
    /\ workflow.returned = "./exports/editorial_links_intelligent.csv"

\* the crawl succeeded with page_titles.csv alone, the post-processing found
\* no export of outgoing links, and the empty string was returned although
\* the structure analysis succeeded
PostProcessingFailedAfterCrawl ==
    /\ WorkflowReturned
    /\ workflow.structure_success
    /\ workflow.sf_success = "True"
    /\ PostProcessingFailed
    /\ ~workflow.semantic_started
    /\ workflow.returned = ""

\* the export was read and held no link: the report was written, the ratio
\* raised, and the post-processing returned the empty string
EmptyExportFailsPostProcessing ==
    /\ WorkflowReturned
    /\ workflow.read
    /\ workflow.total_links = 0
    /\ workflow.returned = ""

============================================================================
